---- MODULE Spec2Model ----
(***************************************************************************)
(* Model of lib/roi_data_layer/layer.py: the Caffe Python layers of the    *)
(* adversarial Fast R-CNN (RoIDataLayer with its BlobFetcher prefetch      *)
(* process, OHEMDataLayer, the ASDN layers and the ASTN layers).           *)
(*                                                                         *)
(* Each layer is modelled by its own group of variables and its own        *)
(* specification (SpecPrefetch, SpecSetup, ...); the layers share no       *)
(* state, so a specification leaves the other groups unchanged.            *)
(*                                                                         *)
(* Real numbers are fixed point.  A probability is an integer number of    *)
(* tenths (0..10); a logarithm, a sigmoid or a reciprocal is the value of  *)
(* the function times 1000, rounded, read from a table.                    *)
(***************************************************************************)
EXTENDS Integers, Sequences, FiniteSets, TLC

VARIABLES
    \* ---- RoIDataLayer and BlobFetcher (prefetch) ----
    use_prefetch,      \* cfg.TRAIN.USE_PREFETCH
    set_calls,         \* number of set_roidb calls made so far
    blob_queue,        \* self._blob_queue: id of the layer's current Queue, 0 = unset
    prefetch_process,  \* self._prefetch_process: id of the current BlobFetcher, 0 = unset
    fetcher,           \* the BlobFetcher processes, by id
    queues,            \* the Queue(10) objects, by id: blobs put and not yet got
    atexit_handlers,   \* number of cleanup closures registered with atexit
    parent,            \* the training process: running, or inside its exit handlers
    layer_pc,          \* RoIDataLayer.forward: "idle", or "get" (inside _blob_queue.get())
    layer_cur,         \* RoIDataLayer._cur
    last_blob,         \* the blobs forward copied last
    \* ---- setup of a layer ----
    setup_layer,       \* the layer class whose setup ran last ("none" before any)
    setup_cfg,         \* cfg.TRAIN.HAS_RPN, BBOX_REG, USE_ASDN at that call
    setup_ntop,        \* len(top) at that call
    setup_names,       \* len(self._name_to_top_map) when setup ended
    setup_outcome,     \* "ok", "AssertionError" or "IndexError"
    \* ---- hard-example selection (get_ohem_minibatch, get_ohem_minibatch_ratio) ----
    sel_loss,          \* the loss sequence passed, one entry per proposal
    sel_labels,        \* the labels passed, one per proposal
    sel_cfg,           \* cfg.TRAIN.BATCH_SIZE, the ratio (tenths) and hard_negative
    sel_out,           \* what the selector returned: the call and the indices
    \* ---- ASDNLossLayer ----
    al_cfg,            \* _iter_size, _maintain_before, _score_thres (tenths), set by setup
    al_count_iter,     \* self._count_iter
    al_count,          \* self._count
    al_calls,          \* forward calls made since setup
    al_bottom,         \* the bottom blobs, one record per sample: label, prop_before,
                       \* prop_after, mask_pred row (f), mask_thres row (t)
    al_diff,           \* bottom[0].diff, the gradient on mask_pred, one row per sample
    al_lZ,             \* the per-cell loss terms lZ of the last enabled forward
    al_loss,           \* top[0].data
    al_pc,             \* the call made last: "setup", "disabled", "enabled", "backward"
    \* ---- ASDNDataLayer ----
    ad_cfg,            \* _count_drop, _permute_count, _count_drop_neg, _channels,
                       \* _iter_size, _maintain_before, set by setup
    ad_count_iter,     \* self._count_iter
    ad_bottom,         \* the bottom blobs, one record per sample: label, mask_pred row
    ad_drop,           \* per sample, the cells thres_mask_rand set to 0 in now_mask
    ad_top0,           \* top 'mask_thres': 1 - mask_thres, one row per sample
    ad_top1,           \* top 'mask_thres_block': mask_thres tiled over the channels
    ad_pc,             \* how the last call ended: "setup", "nodrop", "thres", "IndexError"
    \* ---- ASTNLossLayer ----
    at_bottom,         \* the bottom blobs, one record per sample: label, cls_prob row
    at_loss,           \* forward's local loss, one term per sample
    at_dloss,          \* forward's local dloss, batch_size rows of batch_size entries
    at_top,            \* top[0].data
    at_diff,           \* bottom[0].diff, the gradient on cls_prob, one row per sample
    at_pc,             \* the call made last: "setup", "forward", "backward"
    \* ---- ASTNDataLayer ----
    tn_block_num,      \* self._block_num
    tn_trans_param,    \* bottom 'trans_param': one angle (degrees) per block
    tn_pool5,          \* bottom 'pool5': one feature map per channel
    tn_corners,        \* per channel and pixel, the corner indices x0, x1, y0, y1
    tn_top,            \* top 'trans_feat', numerators over XDen * YDen
    tn_pool5_diff,     \* the gradient on pool5, numerators over XDen * YDen
    tn_theta_diff,     \* the gradient on trans_param, per block, as the sum that
                       \* np.mean divides
    tn_pc,             \* the call made last: "setup", "forward", "IndexError", "backward"
    \* ---- OHEMDataLayer ----
    oh_cfg,            \* cfg.TRAIN.BBOX_REG, USE_ASDN, OHEM_RATIO (tenths), BATCH_SIZE,
                       \* OHEM_HARD_NEG, and _iter_size, _maintain_before
    oh_count_iter,     \* self._count_iter
    oh_bottom,         \* the bottom blobs, one record per proposal
    oh_loss,           \* the loss forward passed to the selector
    oh_out,            \* the selector called, hard_inds and what top prop_before got
    \* ---- ASDNPretrainLossLayer ----
    pl_drop_neg,       \* self._drop_neg
    pl_bottom,         \* bottom: f (mask_pred), conv_feat_mask, prop, labels_pos, rois rows
    pl_count,          \* self._count
    pl_mask_label,     \* mask_label of the last forward
    pl_bp_mask,        \* bp_mask of the last forward
    pl_loss,           \* top[0].data
    pl_diff,           \* bottom[0].diff, the gradient on mask_pred
    pl_pc,             \* how the last call ended: "setup", "forward", "AssertionError", "backward"
    \* ---- ASDNPretrainDataLayer ----
    pd_cfg,            \* drop_size, drop_stride
    pd_conv_feat,      \* bottom[0].data
    pd_rep,            \* top[0].data, conv_feat_rep
    pd_mask,           \* top[1].data, conv_feat_mask
    pd_pc,             \* "setup", "forward" or "backward"
    \* ---- _get_next_minibatch_inds ----
    mi_cfg,            \* owner class, len(self._roidb), IMS_PER_BATCH, ASPECT_GROUPING, horz
    mi_perm,           \* self._perm
    mi_cur,            \* self._cur
    mi_db_inds,        \* db_inds of the last call
    mi_seen,           \* the indices returned since the last shuffle, in order
    mi_pc              \* "constructed", "returned", "ValueError", "AttributeError"

prefetch_vars == <<use_prefetch, set_calls, blob_queue, prefetch_process, fetcher,
                   queues, atexit_handlers, parent, layer_pc, layer_cur, last_blob>>

setup_vars == <<setup_layer, setup_cfg, setup_ntop, setup_names, setup_outcome>>

sel_vars == <<sel_loss, sel_labels, sel_cfg, sel_out>>

al_vars == <<al_cfg, al_count_iter, al_count, al_calls, al_bottom, al_diff, al_lZ, al_loss,
             al_pc>>

ad_vars == <<ad_cfg, ad_count_iter, ad_bottom, ad_drop, ad_top0, ad_top1, ad_pc>>

at_vars == <<at_bottom, at_loss, at_dloss, at_top, at_diff, at_pc>>

tn_vars == <<tn_block_num, tn_trans_param, tn_pool5, tn_corners, tn_top,
             tn_pool5_diff, tn_theta_diff, tn_pc>>

oh_vars == <<oh_cfg, oh_count_iter, oh_bottom, oh_loss, oh_out>>

pl_vars == <<pl_drop_neg, pl_bottom, pl_count, pl_mask_label, pl_bp_mask, pl_loss, pl_diff,
             pl_pc>>

pd_vars == <<pd_cfg, pd_conv_feat, pd_rep, pd_mask, pd_pc>>

mi_vars == <<mi_cfg, mi_perm, mi_cur, mi_db_inds, mi_seen, mi_pc>>

vars == <<prefetch_vars, setup_vars, sel_vars, al_vars, ad_vars, at_vars, tn_vars,
          oh_vars, pl_vars, pd_vars, mi_vars>>

\* What the actions of one layer leave alone: the other layers' state.
not_prefetch == <<setup_vars, sel_vars, al_vars, ad_vars, at_vars, tn_vars, oh_vars, pl_vars,
                  pd_vars, mi_vars>>
not_setup == <<prefetch_vars, sel_vars, al_vars, ad_vars, at_vars, tn_vars, oh_vars, pl_vars,
               pd_vars, mi_vars>>
not_sel == <<prefetch_vars, setup_vars, al_vars, ad_vars, at_vars, tn_vars, oh_vars, pl_vars,
             pd_vars, mi_vars>>
not_al == <<prefetch_vars, setup_vars, sel_vars, ad_vars, at_vars, tn_vars, oh_vars, pl_vars,
            pd_vars, mi_vars>>
not_ad == <<prefetch_vars, setup_vars, sel_vars, al_vars, at_vars, tn_vars, oh_vars, pl_vars,
            pd_vars, mi_vars>>
not_at == <<prefetch_vars, setup_vars, sel_vars, al_vars, ad_vars, tn_vars, oh_vars, pl_vars,
            pd_vars, mi_vars>>
not_tn == <<prefetch_vars, setup_vars, sel_vars, al_vars, ad_vars, at_vars, oh_vars, pl_vars,
            pd_vars, mi_vars>>
not_oh == <<prefetch_vars, setup_vars, sel_vars, al_vars, ad_vars, at_vars, tn_vars, pl_vars,
            pd_vars, mi_vars>>
not_pl == <<prefetch_vars, setup_vars, sel_vars, al_vars, ad_vars, at_vars, tn_vars, oh_vars,
            pd_vars, mi_vars>>
not_pd == <<prefetch_vars, setup_vars, sel_vars, al_vars, ad_vars, at_vars, tn_vars, oh_vars,
            pl_vars, mi_vars>>
not_mi == <<prefetch_vars, setup_vars, sel_vars, al_vars, ad_vars, at_vars, tn_vars, oh_vars,
            pl_vars, pd_vars>>

\* ---------------------------------------------------------------- helpers

Min(a, b) == IF a < b THEN a ELSE b

Range(s) == {s[i] : i \in 1..Len(s)}

RECURSIVE SumSeq(_)
SumSeq(s) == IF s = <<>> THEN 0 ELSE Head(s) + SumSeq(Tail(s))

\* ------------------------------------------------------------------ bounds

MaxSetRoidb == 2      \* set_roidb calls modelled
RoidbLen == 5         \* len(self._roidb)
ImsPerBatch == 2      \* cfg.TRAIN.IMS_PER_BATCH
MaxTop == 7           \* output slots the host may supply to setup
MaxProposals == 4     \* proposals (rows) in one minibatch
MaxBatchSize == 3     \* cfg.TRAIN.BATCH_SIZE, the number of rows to keep
MaxIterSize == 3      \* iter_size of the layer parameters
MaxMaintain == 2      \* maintain_before of the layer parameters
MaxCalls == 4         \* forward calls modelled after one setup
MaxCountDrop == 2     \* count_drop of the layer parameters
MaxPermute == 5       \* permute_count of the layer parameters
MaxSamples == 3       \* rows of cls_prob in one batch
MaxSide == 3          \* height and width of a pooled feature map
MaxRois == 2          \* proposals in one OHEMDataLayer.forward call
MaxAttempts == 2      \* window replicas per positive sample
MaxDumps == 1         \* debug dumps counted by ASDNPretrainLossLayer._count
MaxRoidb == 4         \* len(self._roidb) where the permutation is explicit

\* ============================================================ prefetching

QueueCap == 10        \* Queue(10)

ProcIds == 1..MaxSetRoidb

\* A blob is opaque here (get_minibatch is an external collaborator): it is
\* tagged with the offset _cur at which its roidb indices were sliced.
NoBlob == -1

\* _get_next_minibatch_inds: the offset the slice is taken at, and _cur after.
SliceStart(cur) == IF cur + ImsPerBatch >= RoidbLen THEN 0 ELSE cur
NextCur(cur) == SliceStart(cur) + ImsPerBatch

PutEnabled_OffByOne(q) == Len(q) <= QueueCap

PutEnabled_NonEmpty(q) == Len(q) > 0 /\ Len(q) < QueueCap

\* Queue.put blocks while the queue is full.
PutEnabled(q) == Len(q) < QueueCap

\* Queue.get blocks while the queue is empty.
GetEnabled(q) == Len(q) > 0

InitFetcher == [status |-> "none", pc |-> "inds", cur |-> 0, blob |-> NoBlob,
                terminated |-> FALSE, joined |-> FALSE]

PrefetchConstructed(prefetch) ==
    /\ use_prefetch = prefetch
    /\ set_calls = 0
    /\ blob_queue = 0
    /\ prefetch_process = 0
    /\ fetcher = [p \in ProcIds |-> InitFetcher]
    /\ queues = [p \in ProcIds |-> <<>>]
    /\ atexit_handlers = 0
    /\ parent = [state |-> "running", left |-> 0, hpc |-> "none"]
    /\ layer_pc = "idle"
    /\ layer_cur = 0
    /\ last_blob = NoBlob

InitPrefetch == \E prefetch \in BOOLEAN : PrefetchConstructed(prefetch)

\* RoIDataLayer.set_roidb: shuffle; with prefetching, a new Queue(10), a new
\* BlobFetcher (whose __init__ shuffles, _cur = 0), start it, register cleanup.
SetRoidb ==
    /\ parent.state = "running"
    /\ layer_pc = "idle"
    /\ set_calls < MaxSetRoidb
    /\ set_calls' = set_calls + 1
    /\ layer_cur' = 0
    /\ IF use_prefetch
       THEN LET p == set_calls + 1 IN
            /\ blob_queue' = p
            /\ prefetch_process' = p
            /\ queues' = [queues EXCEPT ![p] = <<>>]
            /\ fetcher' = [fetcher EXCEPT ![p] = [InitFetcher EXCEPT !.status = "alive"]]
            /\ atexit_handlers' = atexit_handlers + 1
       ELSE UNCHANGED <<blob_queue, prefetch_process, queues, fetcher, atexit_handlers>>
    /\ UNCHANGED <<use_prefetch, parent, layer_pc, last_blob>>
    /\ UNCHANGED not_prefetch

\* BlobFetcher.run, first half of the loop body: the next minibatch is built.
FetcherBuild(p) ==
    /\ fetcher[p].status = "alive"
    /\ fetcher[p].pc = "inds"
    /\ fetcher' = [fetcher EXCEPT ![p].blob = SliceStart(fetcher[p].cur),
                                  ![p].cur = NextCur(fetcher[p].cur),
                                  ![p].pc = "put"]
    /\ UNCHANGED <<use_prefetch, set_calls, blob_queue, prefetch_process, queues,
                   atexit_handlers, parent, layer_pc, layer_cur, last_blob>>
    /\ UNCHANGED not_prefetch

\* BlobFetcher.run, second half: self._queue.put(blobs).
FetcherPut(p) ==
    /\ fetcher[p].status = "alive"
    /\ fetcher[p].pc = "put"
    /\ PutEnabled(queues[p])
    /\ queues' = [queues EXCEPT ![p] = Append(@, fetcher[p].blob)]
    /\ fetcher' = [fetcher EXCEPT ![p].pc = "inds"]
    /\ UNCHANGED <<use_prefetch, set_calls, blob_queue, prefetch_process,
                   atexit_handlers, parent, layer_pc, layer_cur, last_blob>>
    /\ UNCHANGED not_prefetch

\* RoIDataLayer.forward is called: with prefetching it enters _blob_queue.get(),
\* without it builds the minibatch itself.
ForwardCall ==
    /\ parent.state = "running"
    /\ set_calls > 0
    /\ layer_pc = "idle"
    /\ IF use_prefetch
       THEN /\ layer_pc' = "get"
            /\ UNCHANGED <<layer_cur, last_blob>>
       ELSE /\ last_blob' = SliceStart(layer_cur)
            /\ layer_cur' = NextCur(layer_cur)
            /\ UNCHANGED layer_pc
    /\ UNCHANGED <<use_prefetch, set_calls, blob_queue, prefetch_process, fetcher,
                   queues, atexit_handlers, parent>>
    /\ UNCHANGED not_prefetch

\* _blob_queue.get() returns and forward copies the blobs into top.
ForwardGet ==
    /\ parent.state = "running"
    /\ layer_pc = "get"
    /\ GetEnabled(queues[blob_queue])
    /\ last_blob' = Head(queues[blob_queue])
    /\ queues' = [queues EXCEPT ![blob_queue] = Tail(@)]
    /\ layer_pc' = "idle"
    /\ UNCHANGED <<use_prefetch, set_calls, blob_queue, prefetch_process, fetcher,
                   atexit_handlers, parent, layer_cur>>
    /\ UNCHANGED not_prefetch

\* The parent leaves its main program: atexit runs the registered handlers.
ParentExit ==
    /\ parent.state = "running"
    /\ layer_pc = "idle"
    /\ parent' = IF atexit_handlers = 0
                 THEN [state |-> "cleanup_done", left |-> 0, hpc |-> "none"]
                 ELSE [state |-> "exiting", left |-> atexit_handlers, hpc |-> "terminate"]
    /\ UNCHANGED <<use_prefetch, set_calls, blob_queue, prefetch_process, fetcher,
                   queues, atexit_handlers, layer_pc, layer_cur, last_blob>>
    /\ UNCHANGED not_prefetch

\* The process a cleanup closure acts on: the closure holds self, so it is
\* self._prefetch_process as it is when the handler runs.
CleanupTarget == prefetch_process

\* cleanup(), first statement: self._prefetch_process.terminate().
CleanupTerminate ==
    /\ parent.state = "exiting"
    /\ parent.hpc = "terminate"
    /\ fetcher' = [fetcher EXCEPT ![CleanupTarget].status = "dead",
                                  ![CleanupTarget].terminated = TRUE]
    /\ parent' = [parent EXCEPT !.hpc = "join"]
    /\ UNCHANGED <<use_prefetch, set_calls, blob_queue, prefetch_process, queues,
                   atexit_handlers, layer_pc, layer_cur, last_blob>>
    /\ UNCHANGED not_prefetch

\* cleanup(), second statement: self._prefetch_process.join(), which returns
\* once the process is dead.
CleanupJoin ==
    /\ parent.state = "exiting"
    /\ parent.hpc = "join"
    /\ fetcher[CleanupTarget].status = "dead"
    /\ fetcher' = [fetcher EXCEPT ![CleanupTarget].joined = TRUE]
    /\ parent' = IF parent.left = 1
                 THEN [state |-> "cleanup_done", left |-> 0, hpc |-> "none"]
                 ELSE [parent EXCEPT !.left = @ - 1, !.hpc = "terminate"]
    /\ UNCHANGED <<use_prefetch, set_calls, blob_queue, prefetch_process, queues,
                   atexit_handlers, layer_pc, layer_cur, last_blob>>
    /\ UNCHANGED not_prefetch

NextPrefetch ==
    \/ SetRoidb
    \/ \E p \in ProcIds : FetcherBuild(p)
    \/ \E p \in ProcIds : FetcherPut(p)
    \/ ForwardCall
    \/ ForwardGet
    \/ ParentExit
    \/ CleanupTerminate
    \/ CleanupJoin

\* Scheduling: a BlobFetcher process that is alive keeps running its loop
\* whenever it is not blocked in put, and a get that can return does return.
PrefetchFairness ==
    /\ \A p \in ProcIds : WF_vars(FetcherBuild(p)) /\ WF_vars(FetcherPut(p))
    /\ WF_vars(ForwardGet)

\* ================================================ _get_next_minibatch_inds
\* One owner of _perm and _cur: a RoIDataLayer (whose shuffle honours
\* cfg.TRAIN.ASPECT_GROUPING) or a BlobFetcher (whose shuffle does not).
\* roidb indices run from 0; _perm is a sequence of them.

\* The orders np.random.permutation may return for the entries S
RECURSIVE Orders(_)
Orders(S) == IF S = {} THEN {<<>>}
             ELSE UNION {{<<x>> \o o : o \in Orders(S \ {x})} : x \in S}

\* horz: the entries with width >= height.  Without grouping horz is not read.
MinibatchCfgs ==
    {[owner |-> o, len |-> n, ims_per_batch |-> b, aspect_grouping |-> g, horz |-> h] :
        o \in {"RoIDataLayer", "BlobFetcher"}, n \in 1..MaxRoidb, b \in 1..ImsPerBatch,
        g \in BOOLEAN, h \in {0..(k - 1) : k \in 0..MaxRoidb}}

\* The configurations told apart by the code, for a roidb with at least
\* IMS_PER_BATCH entries
MinibatchInputs ==
    {c \in MinibatchCfgs :
        /\ c.len >= c.ims_per_batch
        /\ c.horz \subseteq 0..(c.len - 1)
        /\ (c.owner = "BlobFetcher" \/ ~c.aspect_grouping) => c.horz = {}
        /\ c.owner = "BlobFetcher" => ~c.aspect_grouping}

\* np.reshape(inds, (-1, 2)) raises ValueError on an odd number of entries
ReshapeRaises(cfg) == cfg.aspect_grouping /\ cfg.len % 2 # 0

\* inds[row_perm, :] flattened: pair row_perm[r] of inds is the r-th pair
RowPermuted(inds, row_perm) ==
    [k \in 1..Len(inds) |-> inds[2 * (row_perm[(k + 1) \div 2] - 1) + ((k - 1) % 2) + 1]]

\* The values _shuffle_roidb_inds may leave in _perm
ShuffleRoidbInds(cfg) ==
    IF cfg.aspect_grouping
    THEN {RowPermuted(h \o v, row_perm) :
             h \in Orders(cfg.horz), v \in Orders((0..(cfg.len - 1)) \ cfg.horz),
             row_perm \in Orders(1..(cfg.len \div 2))}
    ELSE Orders(0..(cfg.len - 1))

\* self._perm[cur : cur + IMS_PER_BATCH]: a slice stops at the end
PermSlice(perm, cur, ims_per_batch) ==
    SubSeq(perm, cur + 1, Min(cur + ims_per_batch, Len(perm)))

\* if self._cur + cfg.TRAIN.IMS_PER_BATCH >= len(self._roidb)
Reshuffles(cur, cfg) == cur + cfg.ims_per_batch >= cfg.len

\* After set_roidb (RoIDataLayer) or __init__ (BlobFetcher): shuffled, or
\* left by the ValueError of the reshape without _perm and _cur.
MinibatchConstructed(cfg, perm) ==
    /\ mi_cfg = cfg
    /\ mi_perm = perm
    /\ mi_cur = 0
    /\ mi_db_inds = <<>>
    /\ mi_seen = <<>>
    /\ mi_pc = IF ReshapeRaises(cfg) THEN "ValueError" ELSE "constructed"

InitMinibatchInds ==
    \E cfg \in MinibatchInputs :
        IF ReshapeRaises(cfg)
        THEN MinibatchConstructed(cfg, <<>>)
        ELSE \E perm \in ShuffleRoidbInds(cfg) : MinibatchConstructed(cfg, perm)

\* _get_next_minibatch_inds.  On an object whose shuffle raised, _cur was
\* never assigned and the first line raises AttributeError.
GetNextMinibatchInds ==
    /\ IF mi_pc \in {"ValueError", "AttributeError"}
       THEN /\ mi_pc' = "AttributeError"
            /\ UNCHANGED <<mi_perm, mi_cur, mi_db_inds, mi_seen>>
       ELSE /\ IF Reshuffles(mi_cur, mi_cfg)
               THEN /\ mi_perm' \in ShuffleRoidbInds(mi_cfg)
                    /\ mi_db_inds' = PermSlice(mi_perm', 0, mi_cfg.ims_per_batch)
                    /\ mi_cur' = mi_cfg.ims_per_batch
                    /\ mi_seen' = mi_db_inds'
               ELSE /\ mi_db_inds' = PermSlice(mi_perm, mi_cur, mi_cfg.ims_per_batch)
                    /\ mi_cur' = mi_cur + mi_cfg.ims_per_batch
                    /\ mi_seen' = mi_seen \o mi_db_inds'
                    /\ UNCHANGED mi_perm
            /\ mi_pc' = "returned"
    /\ UNCHANGED mi_cfg
    /\ UNCHANGED not_mi

NextMinibatchInds == GetNextMinibatchInds

\* ================================================================== setup

Layers == {"RoIDataLayer", "OHEMDataLayer", "ASDNPretrainLossLayer",
           "ASDNPretrainLabelLayer", "ASDNPretrainDataLayer", "ASDNLossLayer",
           "ASDNDataLayer", "ASTNDataLayer", "ASTNLossLayer"}

Cfgs == [HAS_RPN : BOOLEAN, BBOX_REG : BOOLEAN, USE_ASDN : BOOLEAN]

\* RoIDataLayer.setup: 'data', then 'im_info' and 'gt_boxes' with an RPN, else
\* 'rois' and 'labels' and, with BBOX_REG, the three bbox blobs.
RoIDataLayerNames(cfg) ==
    1 + (IF cfg.HAS_RPN THEN 2 ELSE 2 + (IF cfg.BBOX_REG THEN 3 ELSE 0))

\* OHEMDataLayer.setup: 'rois_hard', 'labels_hard', with BBOX_REG the three
\* bbox blobs, with USE_ASDN 'prop_before'.
OHEMDataLayerNames(cfg) ==
    2 + (IF cfg.BBOX_REG THEN 3 ELSE 0) + (IF cfg.USE_ASDN THEN 1 ELSE 0)

\* The number of names a complete setup records in self._name_to_top_map.
NamesRecorded(layer, cfg) ==
    CASE layer = "RoIDataLayer"           -> RoIDataLayerNames(cfg)
      [] layer = "OHEMDataLayer"          -> OHEMDataLayerNames(cfg)
      [] layer = "ASDNPretrainLossLayer"  -> 1
      [] layer = "ASDNPretrainLabelLayer" -> 3
      [] layer = "ASDNPretrainDataLayer"  -> 2
      [] layer = "ASDNLossLayer"          -> 1
      [] layer = "ASDNDataLayer"          -> 2
      [] layer = "ASTNDataLayer"          -> 1
      [] layer = "ASTNLossLayer"          -> 1

\* The number of slots top[0], top[1], ... that setup reshapes: every layer
\* reshapes one slot per name it records.
TopsReshaped(layer, cfg) == NamesRecorded(layer, cfg)

\* Whether setup ends with  assert len(top) == len(self._name_to_top_map).
HasTopAssert(layer) == layer \notin {"ASTNDataLayer", "ASTNLossLayer"}

\* Whether setup starts with  assert cfg.TRAIN.HAS_RPN == False.
HasRpnAssert(layer) == layer = "OHEMDataLayer"

\* How setup(bottom, top) ends when the host supplies ntop output slots:
\* top[idx] with idx >= len(top) raises IndexError before the final assert is
\* reached; the final assert, where there is one, raises AssertionError.
SetupOutcome(layer, cfg, ntop) ==
    IF HasRpnAssert(layer) /\ cfg.HAS_RPN THEN "AssertionError"
    ELSE IF ntop < TopsReshaped(layer, cfg) THEN "IndexError"
    ELSE IF HasTopAssert(layer) /\ ntop # NamesRecorded(layer, cfg) THEN "AssertionError"
    ELSE "ok"

\* len(self._name_to_top_map) when setup ends: the layers that fill the map
\* slot by slot stop at the slot that is missing, the others set it at once.
NamesAtEnd(layer, cfg, ntop) ==
    IF layer = "OHEMDataLayer" /\ cfg.HAS_RPN THEN 0
    ELSE IF layer \in {"RoIDataLayer", "OHEMDataLayer"}
         THEN Min(ntop, NamesRecorded(layer, cfg))
         ELSE NamesRecorded(layer, cfg)

InitSetup ==
    /\ setup_layer = "none"
    /\ setup_cfg = [HAS_RPN |-> FALSE, BBOX_REG |-> FALSE, USE_ASDN |-> FALSE]
    /\ setup_ntop = 0
    /\ setup_names = 0
    /\ setup_outcome = "ok"

\* The host calls layer.setup(bottom, top) with ntop output slots.
Setup(layer) ==
    \E cfg \in Cfgs, ntop \in 0..MaxTop :
        /\ setup_layer' = layer
        /\ setup_cfg' = cfg
        /\ setup_ntop' = ntop
        /\ setup_names' = NamesAtEnd(layer, cfg, ntop)
        /\ setup_outcome' = SetupOutcome(layer, cfg, ntop)
        /\ UNCHANGED not_setup

NextSetup == \E layer \in Layers : Setup(layer)

\* ================================================== hard-example selection
\* get_ohem_minibatch and get_ohem_minibatch_ratio live in
\* roi_data_layer/minibatch.py; OHEMDataLayer.forward calls them with the loss
\* list and the labels.  Proposal indices are 0-based, as in the code: index i
\* is entry i + 1 of a sequence.

LossVals == {1, 3, 7, 9}        \* losses, in tenths
RatioLossVals == {1, 3}

Vectors(S, n) == UNION {[1..k -> S] : k \in 0..n}

Indices(s) == {i - 1 : i \in 1..Len(s)}

\* The index of S that sorts first: highest loss, lowest index among equals.
Hardest(loss, S) ==
    CHOOSE i \in S : \A j \in S : \/ loss[j + 1] < loss[i + 1]
                                  \/ (loss[j + 1] = loss[i + 1] /\ i <= j)

Easiest(loss, S) ==
    CHOOSE i \in S : \A j \in S : \/ loss[j + 1] > loss[i + 1]
                                  \/ (loss[j + 1] = loss[i + 1] /\ i <= j)

RECURSIVE SortAscending(_, _)
SortAscending(loss, S) ==
    IF S = {} THEN <<>>
    ELSE <<Easiest(loss, S)>> \o SortAscending(loss, S \ {Easiest(loss, S)})

\* The indices of S by descending loss, ties in original index order.
RECURSIVE SortDescending(_, _)
SortDescending(loss, S) ==
    IF S = {} THEN <<>>
    ELSE <<Hardest(loss, S)>> \o SortDescending(loss, S \ {Hardest(loss, S)})

Take(s, n) == SubSeq(s, 1, Min(n, Len(s)))

TopK_Easiest(loss, K) == Take(SortAscending(loss, Indices(loss)), K)

\* Top-K by loss: sort the proposal indices by descending loss, keep K.
TopK(loss, K) == Take(SortDescending(loss, Indices(loss)), K)

Foreground(labels) == {i \in Indices(labels) : labels[i + 1] > 0}
Background(labels) == {i \in Indices(labels) : labels[i + 1] = 0}

\* The foreground set: the hardest positives, at most the configured count.
RatioFg(loss, labels, K) == Take(SortDescending(loss, Foreground(labels)), K)

BgCap_NoRatio(nfg, ratio10, K) == K

\* The size the background set may have: ratio times the foreground count
\* kept, and never above the configured count.
BgCap(nfg, ratio10, K) == Min((ratio10 * nfg) \div 10, K)

\* The subsequences of s of length n, in the order of s.
SubSeqsOf(s, n) ==
    {t \in [1..n -> Range(s)] :
        \E f \in [1..n -> 1..Len(s)] :
            /\ \A a, b \in 1..n : a < b => f[a] < f[b]
            /\ \A a \in 1..n : t[a] = s[f[a]]}

\* The background sets the ratio policy may return: with hard_negative the
\* highest-loss negatives, else any (uniformly drawn) negatives.
RatioBgChoices(loss, labels, cfg) ==
    LET fg == RatioFg(loss, labels, cfg.batch_size)
        sorted == SortDescending(loss, Background(labels))
        n == Min(BgCap(Len(fg), cfg.ratio10, cfg.batch_size), Len(sorted))
    IN IF cfg.hard_negative THEN {Take(sorted, n)} ELSE SubSeqsOf(sorted, n)

SelCfgs == [batch_size : 0..MaxBatchSize, ratio10 : {5, 10, 20}, hard_negative : BOOLEAN]

NoSelection == [call |-> "none", hard_inds |-> <<>>, fg |-> <<>>, bg |-> <<>>]

SelectInputs(loss, labels, cfg) ==
    /\ sel_loss = loss
    /\ sel_labels = labels
    /\ sel_cfg = cfg
    /\ sel_out = NoSelection

\* The inputs of one call of get_ohem_minibatch: the labels play no part.
InitTopK ==
    \E loss \in Vectors(LossVals, MaxProposals),
       cfg \in {c \in SelCfgs : c.ratio10 = 10 /\ ~c.hard_negative} :
        SelectInputs(loss, [i \in 1..Len(loss) |-> 0], cfg)

\* The inputs of one call of get_ohem_minibatch_ratio.
InitRatio ==
    \E loss \in Vectors(RatioLossVals, MaxProposals), cfg \in SelCfgs :
        \E labels \in [1..Len(loss) -> {0, 1, 2}] : SelectInputs(loss, labels, cfg)

\* get_ohem_minibatch(loss, rois, labels, ...)
GetOhemMinibatch ==
    /\ sel_out.call = "none"
    /\ sel_out' = [call |-> "get_ohem_minibatch",
                   hard_inds |-> TopK(sel_loss, sel_cfg.batch_size),
                   fg |-> <<>>, bg |-> <<>>]
    /\ UNCHANGED <<sel_loss, sel_labels, sel_cfg>>
    /\ UNCHANGED not_sel

\* get_ohem_minibatch_ratio(loss, rois, labels, ..., ratio, hard_negative)
GetOhemMinibatchRatio ==
    /\ sel_out.call = "none"
    /\ \E bg \in RatioBgChoices(sel_loss, sel_labels, sel_cfg) :
          LET fg == RatioFg(sel_loss, sel_labels, sel_cfg.batch_size) IN
          sel_out' = [call |-> "get_ohem_minibatch_ratio",
                      hard_inds |-> fg \o bg, fg |-> fg, bg |-> bg]
    /\ UNCHANGED <<sel_loss, sel_labels, sel_cfg>>
    /\ UNCHANGED not_sel

NextTopK == GetOhemMinibatch
NextRatio == GetOhemMinibatchRatio

\* ========================================================== ASDNLossLayer
\* num_classes is 2: a row of class probabilities is <<p[0], p[1]>>, in tenths.
\* A mask row holds the cells of one sample's pooled grid, flattened.

\* <<prop_before row, prop_after row>>
PropPairs == {<<<<5, 5>>, <<8, 2>>>>, <<<<2, 8>>, <<5, 5>>>>, <<<<2, 8>>, <<8, 2>>>>,
              <<<<5, 5>>, <<2, 8>>>>}
ScoreRows == {<<-1, 1>>, <<0, 1>>, <<1, 1>>}      \* mask_pred, raw scores f
MaskRows == {<<0, 1>>, <<1, 1>>}                  \* mask_thres, labels t
ScoreThresholds == {0, 3}                         \* score_thres, in tenths

ASDNSamples ==
    {[label |-> l, prop_before |-> pp[1], prop_after |-> pp[2], f |-> f, t |-> t] :
        l \in {0, 1}, pp \in PropPairs, f \in ScoreRows, t \in MaskRows}

ASDNBatches == UNION {[1..n -> ASDNSamples] : n \in {1, 2}}

\* 1000 * log(1 + exp(-|f|))
LogTerm(f) == IF f = 0 THEN 693 ELSE 313

\* 1000 * exp(min(f,0)) / (exp(min(f,0)) + exp(-max(f,0))), the sigmoid of f
Sigmoid(f) == CASE f = -1 -> 269 [] f = 0 -> 500 [] f = 1 -> 731

\* (f > 0) as a number
Positive(f) == IF f > 0 THEN 1 ELSE 0

\* count_bit: the product of the dimensions of bottom[0]
CountBit(bottom) == Len(bottom) * 1 * Len(bottom[1].f)

\* lZ + ((f>0)-t)*f * mask, per cell, with ignore_label None (mask is all ones)
CellLoss(f, t) == LogTerm(f) + (Positive(f) - t) * f * 1000

\* (dlZ - t*mask) / count_bit, per cell
CellDiff(f, t, count_bit) == (Sigmoid(f) - t * 1000) \div count_bit

ZeroRow(row) == [c \in 1..Len(row) |-> 0]

Contributes_NoMargin(lbl, prop_before, prop_after, score_thres) ==
    lbl > 0 /\ prop_after[lbl + 1] < prop_before[lbl + 1]

\* The test of the loop over the samples: the sample is kept when
\* lbl > 0 and prop_after_select + self._score_thres < prop_before_select.
Contributes(lbl, prop_before, prop_after, score_thres) ==
    lbl > 0 /\ prop_after[lbl + 1] + score_thres < prop_before[lbl + 1]

Keeps(s, cfg) == Contributes(s.label, s.prop_before, s.prop_after, cfg.score_thres)

NextCountIter_NoWrap(count_iter, iter_size) == count_iter + 1

\* self._count_iter = (self._count_iter + 1) % self._iter_size
NextCountIter(count_iter, iter_size) == (count_iter + 1) % iter_size

Disabled_OrEqual(count_iter, maintain_before) == count_iter <= maintain_before

\* The branch that returns early with a zero gradient.
Disabled(count_iter, maintain_before) == count_iter < maintain_before

ASDNLossCfgs == [iter_size : 1..MaxIterSize, maintain_before : 0..MaxMaintain,
                 score_thres : ScoreThresholds]

\* After setup: the counters are 0; the blobs are the host's, zero-filled.
ASDNLossSetup(cfg, bottom) ==
    /\ al_cfg = cfg
    /\ al_bottom = bottom
    /\ al_count_iter = 0
    /\ al_count = 0
    /\ al_calls = 0
    /\ al_diff = [i \in 1..Len(al_bottom) |-> ZeroRow(al_bottom[i].f)]
    /\ al_lZ = <<>>
    /\ al_loss = 0
    /\ al_pc = "setup"

InitASDNLoss ==
    \E cfg \in ASDNLossCfgs, bottom \in ASDNBatches \cup {<<>>} : ASDNLossSetup(cfg, bottom)

\* ASDNLossLayer.forward
ASDNLossForwardEffect ==
    /\ al_bottom # <<>>
    /\ al_calls < MaxCalls
    /\ al_calls' = al_calls + 1
    /\ al_count_iter' = NextCountIter(al_count_iter, al_cfg.iter_size)
    /\ IF Disabled(al_count_iter', al_cfg.maintain_before)
       THEN /\ al_diff' = [i \in 1..Len(al_bottom) |-> ZeroRow(al_bottom[i].f)]
            /\ al_pc' = "disabled"
            /\ UNCHANGED <<al_lZ, al_loss, al_count>>
       ELSE LET N == Len(al_bottom)
                count_bit == CountBit(al_bottom)
                lZ == [i \in 1..N |->
                         IF Keeps(al_bottom[i], al_cfg)
                         THEN [c \in 1..Len(al_bottom[i].f) |->
                                 CellLoss(al_bottom[i].f[c], al_bottom[i].t[c])]
                         ELSE ZeroRow(al_bottom[i].f)]
                df == [i \in 1..N |->
                         IF Keeps(al_bottom[i], al_cfg)
                         THEN [c \in 1..Len(al_bottom[i].f) |->
                                 CellDiff(al_bottom[i].f[c], al_bottom[i].t[c], count_bit)]
                         ELSE ZeroRow(lZ[i])]
            IN /\ al_lZ' = lZ
               /\ al_diff' = df
               /\ al_loss' = SumSeq([i \in 1..N |-> SumSeq(lZ[i])]) \div count_bit
               /\ \E debug_folder_exists \in BOOLEAN :
                     al_count' = IF debug_folder_exists THEN al_count + 1 ELSE al_count
               /\ al_pc' = "enabled"
    /\ UNCHANGED <<al_cfg, al_bottom>>

\* The call as a step of the layer alone
ASDNLossForward == ASDNLossForwardEffect /\ UNCHANGED not_al

\* ASDNLossLayer.backward: bottom[0].diff[...] *= top[0].diff
ASDNLossBackward ==
    /\ al_pc \in {"disabled", "enabled"}
    /\ \E top_diff \in {1, 2} :
          al_diff' = [i \in 1..Len(al_diff) |->
                        [c \in 1..Len(al_diff[i]) |-> al_diff[i][c] * top_diff]]
    /\ al_pc' = "backward"
    /\ UNCHANGED <<al_cfg, al_count_iter, al_count, al_calls, al_bottom, al_lZ, al_loss>>
    /\ UNCHANGED not_al

NextASDNLoss == ASDNLossForward \/ ASDNLossBackward

\* =========================================================== OHEMDataLayer
\* A proposal is a record: its label, its cls_prob row (tenths, class c at
\* entry c + 1) and its bbox row, one record per coordinate with the inside
\* weight iw, the outside weight ow and d = bbox_pred - bbox_target in tenths.
\* A loss is the value times 1000.

OHEMProbRows == {<<0, 10>>, <<2, 8>>}

BBoxRows ==
    {<<[iw |-> 1, ow |-> 1, d |-> 5], [iw |-> 1, ow |-> 1, d |-> -20]>>,
     <<[iw |-> 0, ow |-> 1, d |-> 5], [iw |-> 1, ow |-> 0, d |-> 5]>>,
     <<[iw |-> 0, ow |-> 0, d |-> 0], [iw |-> 0, ow |-> 0, d |-> 0]>>}

Proposals == [label : {0, 1}, prob : OHEMProbRows, bbox : BBoxRows]

OHEMCfgs == [BBOX_REG : BOOLEAN, USE_ASDN : BOOLEAN, iter_size : {1, 2},
             maintain_before : {0, 1}, ratio10 : {0, 10}, batch_size : {1},
             hard_negative : {TRUE}]

\* -1 * np.log(max(x, flt_min)), flt_min being the float epsilon
ClsLoss(x) ==
    CASE x = 0 -> 36044 [] x = 2 -> 1609 [] x = 8 -> 223 [] x = 10 -> 0

\* smoothL1(x) for x in tenths: 0.5 * x^2 if |x| < 1, else |x| - 0.5
SmoothL1(x) ==
    LET abs == IF x < 0 THEN 0 - x ELSE x
    IN IF abs < 10 THEN 5 * x * x ELSE abs * 100 - 500

\* bbox_loss[i] for a row with labels[i] > 0: over the coordinates whose
\* inside weight is not 0, outside weight times smoothL1(inside weight * d)
BBoxLoss(bbox) ==
    SumSeq([k \in 1..Len(bbox) |->
        IF bbox[k].iw # 0 THEN bbox[k].ow * SmoothL1(bbox[k].iw * bbox[k].d) ELSE 0])

PlusEquals_Extend(loss, bbox_loss) == loss \o bbox_loss

\* loss += bbox_loss, a list and an ndarray of the same length: numpy adds
\* them entry by entry
PlusEquals(loss, bbox_loss) == [i \in 1..Len(loss) |-> loss[i] + bbox_loss[i]]

\* The loss that forward hands to the selector
OHEMLoss(bottom, bbox_reg) ==
    LET loss == [i \in 1..Len(bottom) |-> ClsLoss(bottom[i].prob[bottom[i].label + 1])]
        bbox_loss == [i \in 1..Len(bottom) |->
                         IF bottom[i].label > 0 THEN BBoxLoss(bottom[i].bbox) ELSE 0]
    IN IF bbox_reg THEN PlusEquals(loss, bbox_loss) ELSE loss

\* After setup: _count_iter is 0; nothing has been selected.
OHEMSetup(cfg, bottom) ==
    /\ oh_cfg = cfg
    /\ oh_bottom = bottom
    /\ oh_count_iter = 0
    /\ oh_loss = <<>>
    /\ oh_out = [call |-> "none", hard_inds |-> <<>>, prop_before |-> <<>>]

InitOHEM ==
    \E cfg \in OHEMCfgs, bottom \in UNION {[1..n -> Proposals] : n \in 1..MaxRois} :
        OHEMSetup(cfg, bottom)

\* OHEMDataLayer.forward
OHEMForwardEffect ==
    LET loss == OHEMLoss(oh_bottom, oh_cfg.BBOX_REG)
        labels == [i \in 1..Len(oh_bottom) |-> oh_bottom[i].label]
        count_iter == NextCountIter(oh_count_iter, oh_cfg.iter_size)
        topk == count_iter < oh_cfg.maintain_before \/ oh_cfg.ratio10 < 1
    IN /\ oh_count_iter' = count_iter
       /\ oh_loss' = loss
       /\ \E hard_inds \in
              IF topk
              THEN {TopK(loss, oh_cfg.batch_size)}
              ELSE {RatioFg(loss, labels, oh_cfg.batch_size) \o bg :
                        bg \in RatioBgChoices(loss, labels, oh_cfg)} :
             oh_out' = [call |-> IF topk THEN "get_ohem_minibatch"
                                 ELSE "get_ohem_minibatch_ratio",
                        hard_inds |-> hard_inds,
                        prop_before |-> IF oh_cfg.USE_ASDN
                                        THEN [k \in 1..Len(hard_inds) |->
                                                 oh_bottom[hard_inds[k] + 1].prob]
                                        ELSE <<>>]
       /\ UNCHANGED <<oh_cfg, oh_bottom>>

\* The call as a step of the layer alone
OHEMForward == OHEMForwardEffect /\ UNCHANGED not_oh

NextOHEM == OHEMForward

\* =================================================== ASDNPretrainLossLayer
\* The pooled grid is flattened to 2 cells.  mask_pred has N rows (ScoreRows),
\* conv_feat_mask has N2 = attempts * N rows, row j * N + i being the mask of
\* window j; prop has one row <<p0, p1>> (tenths) per replica when it is well
\* formed.

\* The mask that replica j carries (ASDNPretrainDataLayer tags replica j with
\* the mask of window j)
WindowMask(j) == CASE j = 0 -> <<1, 0>> [] j = 1 -> <<0, 1>> [] OTHER -> <<1, 1>>

PropRows == {<<5, 2>>, <<5, 5>>}

\* What may be wrong with a minibatch, if anything
Faults == {"none", "labels_rows", "prop_rows", "rois_rows", "label_0"}

PretrainBottom(N, attempts, f, prop, fault) ==
    [f |-> [i \in 1..N |-> f],
     conv_feat_mask |-> [m \in 1..(attempts * N) |-> WindowMask((m - 1) \div N)],
     prop |-> IF fault = "prop_rows" THEN Tail(prop) ELSE prop,
     labels_pos |-> IF fault = "labels_rows" THEN [i \in 1..(N + 1) |-> 1]
                    ELSE [i \in 1..N |-> IF fault = "label_0" /\ i = N THEN 0 ELSE 1],
     rois_rows |-> IF fault = "rois_rows" THEN N + 1 ELSE N]

\* assert(bottom[3].shape[0] == N); assert(bottom[2].shape[0] == N2);
\* assert(bottom[4].shape[0] == N)
ShapeAsserts_NoRois(bottom) ==
    /\ Len(bottom.labels_pos) = Len(bottom.f)
    /\ Len(bottom.prop) = Len(bottom.conv_feat_mask)

ShapeAsserts(bottom) ==
    /\ Len(bottom.labels_pos) = Len(bottom.f)
    /\ Len(bottom.prop) = Len(bottom.conv_feat_mask)
    /\ bottom.rois_rows = Len(bottom.f)

\* assert(nowlbl > 0), for every sample
LabelAsserts(bottom) == \A i \in 1..Len(bottom.labels_pos) : bottom.labels_pos[i] > 0

Smaller_OrEqual(min_prop, p) == min_prop >= p

\* if min_prop > prop[j * N + i][nowlbl]
Smaller(min_prop, p) == min_prop > p

\* The scan over the replicas of sample i (0-based), from replica j on:
\* min_id when the loop ends.
RECURSIVE Scan(_, _, _, _, _, _)
Scan(bottom, i, attempts, j, min_prop, min_id) ==
    IF j >= attempts
    THEN min_id
    ELSE LET N == Len(bottom.f)
             p == bottom.prop[j * N + i + 1][bottom.labels_pos[i + 1] + 1]
         IN IF Smaller(min_prop, p)
            THEN Scan(bottom, i, attempts, j + 1, p, j * N + i)
            ELSE Scan(bottom, i, attempts, j + 1, min_prop, min_id)

\* attempts = N2 / N
Attempts(bottom) == Len(bottom.conv_feat_mask) \div Len(bottom.f)

\* mask_label[i] = conv_feat_mask[min_id], min_prop starting at 1e6
MaskLabel(bottom) ==
    [i \in 1..Len(bottom.f) |->
        bottom.conv_feat_mask[Scan(bottom, i - 1, Attempts(bottom), 0, 10000000, 0) + 1]]

\* bp_mask: ones, or with drop_neg a copy of mask_label with the cells that
\* np.random.random put below rand_thres set to 1
BpMasks(mask_label, drop_neg) ==
    IF drop_neg
    THEN {[i \in 1..Len(mask_label) |->
              [c \in 1..Len(mask_label[i]) |->
                  IF c \in rand_mask[i] THEN 1 ELSE mask_label[i][c]]] :
             rand_mask \in [1..Len(mask_label) -> SUBSET (1..2)]}
    ELSE {[i \in 1..Len(mask_label) |-> [c \in 1..Len(mask_label[i]) |-> 1]]}

\* After setup: _count is 0, top[0] has one entry; the blobs are zero-filled.
PretrainLossSetup(drop_neg, bottom) ==
    /\ pl_drop_neg = drop_neg
    /\ pl_bottom = bottom
    /\ pl_count = 0
    /\ pl_mask_label = <<>>
    /\ pl_bp_mask = <<>>
    /\ pl_loss = 0
    /\ pl_diff = [i \in 1..Len(bottom.f) |-> ZeroRow(bottom.f[i])]
    /\ pl_pc = "setup"

InitPretrainLoss ==
    \E drop_neg \in BOOLEAN, N \in {1, 2}, attempts \in 1..MaxAttempts,
       f \in ScoreRows :
        PretrainLossSetup(drop_neg, PretrainBottom(N, attempts, f,
                                        [m \in 1..(attempts * N) |-> <<5, 5>>], "none"))

\* The minibatches the host may hand to a layer set up on bottom: the shape
\* of mask_pred and conv_feat_mask stays, the other blobs are the batch's.
Minibatches(bottom) ==
    LET N == Len(bottom.f)
        attempts == Len(bottom.conv_feat_mask) \div N
    IN {PretrainBottom(N, attempts, bottom.f[1], prop, "none") :
           prop \in [1..(attempts * N) -> PropRows]}
       \cup {PretrainBottom(N, attempts, bottom.f[1],
                                [m \in 1..(attempts * N) |-> <<5, 5>>], fault) :
                 fault \in Faults}

\* ASDNPretrainLossLayer.forward.  df = df * bp_mask rebinds the local name
\* df to a new array: bottom[0].diff keeps what df[...] = ... wrote.
PretrainLossForward ==
    /\ pl_count < MaxDumps
    /\ \E bottom \in Minibatches(pl_bottom) :
        /\ pl_bottom' = bottom
        /\ IF ShapeAsserts(bottom) /\ LabelAsserts(bottom)
           THEN LET f == bottom.f
                    N == Len(f)
                    count_bit == N * 1 * Len(f[1])
                    t == MaskLabel(bottom)
                IN /\ pl_mask_label' = t
                   /\ pl_loss' = SumSeq([i \in 1..N |->
                                     SumSeq([c \in 1..Len(f[i]) |-> CellLoss(f[i][c], t[i][c])])])
                                     \div count_bit
                   /\ pl_diff' = [i \in 1..N |->
                                     [c \in 1..Len(f[i]) |-> CellDiff(f[i][c], t[i][c], count_bit)]]
                   /\ pl_bp_mask' \in BpMasks(t, pl_drop_neg)
                   /\ \E debug_folder_exists \in BOOLEAN :
                         pl_count' = IF debug_folder_exists THEN pl_count + 1 ELSE pl_count
                   /\ pl_pc' = "forward"
           ELSE /\ pl_pc' = "AssertionError"
                /\ UNCHANGED <<pl_count, pl_mask_label, pl_bp_mask, pl_loss, pl_diff>>
    /\ UNCHANGED pl_drop_neg
    /\ UNCHANGED not_pl

\* ASDNPretrainLossLayer.backward: bottom[0].diff[...] *= top[0].diff
PretrainLossBackward ==
    /\ pl_pc = "forward"
    /\ \E top_diff \in {1, 2} :
          pl_diff' = [i \in 1..Len(pl_diff) |->
                         [c \in 1..Len(pl_diff[i]) |-> pl_diff[i][c] * top_diff]]
    /\ pl_pc' = "backward"
    /\ UNCHANGED <<pl_drop_neg, pl_bottom, pl_count, pl_mask_label, pl_bp_mask, pl_loss>>
    /\ UNCHANGED not_pl

NextPretrainLoss == PretrainLossForward \/ PretrainLossBackward

\* =================================================== ASDNPretrainDataLayer
\* conv_feat[s][ch][x][y], s from 1 and ch from 1, x and y from 0 as in the
\* code; a mask has no channel index: mask[r][x][y].

PretrainDataCfgs == [drop_size : 1..MaxSide, drop_stride : 1..2]

\* Inputs: sample s, channel ch, cell (x, y) carries a value that tells them
\* apart; base 0 has a zero of its own, in cell (0, 0) of the first channel
\* of the first sample.
ConvFeats ==
    {[s \in 1..sample_num |-> [ch \in 1..2 |->
         [x \in 0..(pool_len - 1) |-> [y \in 0..(pool_len - 1) |->
             base * 1000 + (s - 1) * 100 + (ch - 1) * 20 + x * pool_len + y]]]] :
       sample_num \in 1..2, pool_len \in 1..MaxSide, base \in {0, 1}}

\* rep_num = int(np.ceil(float(pool_len) / float(drop_stride)))
RepNum(pool_len, drop_stride) == (pool_len + drop_stride - 1) \div drop_stride

\* The indices a[start : end] selects on an axis of len entries: a negative
\* bound counts from the end, and both are cut to 0..len.
SliceIndices(start, end, len) ==
    LET norm(b) == IF b < 0 THEN (IF b + len < 0 THEN 0 ELSE b + len)
                   ELSE IF b > len THEN len ELSE b
    IN {k \in 0..(len - 1) : norm(start) <= k /\ k < norm(end)}

\* startx (starty) of window i (j): i * drop_stride, moved back by one when
\* the window would pass the end
WindowStart(i, cfg, pool_len) ==
    IF i * cfg.drop_stride + cfg.drop_size > pool_len
    THEN i * cfg.drop_stride - 1
    ELSE i * cfg.drop_stride

\* The indices startx : endx, with endx = min(startx + drop_size, pool_len)
WindowIndices(i, cfg, pool_len) ==
    LET start == WindowStart(i, cfg, pool_len)
    IN SliceIndices(start, Min(start + cfg.drop_size, pool_len), pool_len)

RowOf_SampleMajor(cnt, s, sample_num, rep_num_area) == s * rep_num_area + cnt

\* Row cnt * sample_num + s (s from 0) of the slice
\* cnt * sample_num : cnt * sample_num + sample_num
RowOf(cnt, s, sample_num, rep_num_area) == cnt * sample_num + s

\* generate_feature: <<conv_feat_rep, conv_feat_mask>>, rows from 1
GenerateFeature(conv_feat, cfg) ==
    LET sample_num == Len(conv_feat)
        pool_len == Cardinality(DOMAIN conv_feat[1][1])
        rep_num == RepNum(pool_len, cfg.drop_stride)
        rep_num_area == rep_num * rep_num
        rows == 1..(sample_num * rep_num_area)
        \* the (cnt, s) whose store reaches row r, cnt = i * rep_num + j
        src(r) == CHOOSE cs \in (0..(rep_num_area - 1)) \X (0..(sample_num - 1)) :
                      RowOf(cs[1], cs[2], sample_num, rep_num_area) = r - 1
        inwin(r, x, y) == /\ x \in WindowIndices(src(r)[1] \div rep_num, cfg, pool_len)
                          /\ y \in WindowIndices(src(r)[1] % rep_num, cfg, pool_len)
    IN <<[r \in rows |-> [ch \in 1..Len(conv_feat[1]) |->
            [x \in 0..(pool_len - 1) |-> [y \in 0..(pool_len - 1) |->
                IF inwin(r, x, y) THEN 0 ELSE conv_feat[src(r)[2] + 1][ch][x][y]]]]],
         [r \in rows |->
            [x \in 0..(pool_len - 1) |-> [y \in 0..(pool_len - 1) |->
                IF inwin(r, x, y) THEN 1 ELSE 0]]]>>

\* After setup the two tops have the shape of bottom[0], zero-filled.
PretrainDataSetup(cfg, conv_feat) ==
    /\ pd_cfg = cfg
    /\ pd_conv_feat = conv_feat
    /\ pd_rep = [s \in 1..Len(conv_feat) |-> [ch \in 1..Len(conv_feat[s]) |->
                    [x \in DOMAIN conv_feat[s][ch] |-> [y \in DOMAIN conv_feat[s][ch] |-> 0]]]]
    /\ pd_mask = pd_rep
    /\ pd_pc = "setup"

InitPretrainData ==
    \E cfg \in PretrainDataCfgs, conv_feat \in ConvFeats : PretrainDataSetup(cfg, conv_feat)

\* ASDNPretrainDataLayer.forward
PretrainDataForward ==
    /\ pd_pc = "setup"
    /\ LET out == GenerateFeature(pd_conv_feat, pd_cfg)
       IN /\ pd_rep' = out[1]
          /\ pd_mask' = out[2]
    /\ pd_pc' = "forward"
    /\ UNCHANGED <<pd_cfg, pd_conv_feat>>
    /\ UNCHANGED not_pd

\* ASDNPretrainDataLayer.backward: pass
PretrainDataBackward ==
    /\ pd_pc = "forward"
    /\ pd_pc' = "backward"
    /\ UNCHANGED <<pd_cfg, pd_conv_feat, pd_rep, pd_mask>>
    /\ UNCHANGED not_pd

NextPretrainData == PretrainDataForward \/ PretrainDataBackward

\* ========================================================== ASDNDataLayer
\* pool_len is 2: a mask_pred row holds the mask_pixels = 4 cells of one
\* sample's pooled grid, flattened, cell k (0-based) at entry k + 1; the
\* predicted scores are in tenths.

MaskPredRows == {<<2, 8, 5, 5>>, <<1, 2, 3, 4>>}

ASDNDataSamples == [label : {0, 1}, mask_pred : MaskPredRows]

ASDNDataBatches == UNION {[1..n -> ASDNDataSamples] : n \in {1, 2}}

ASDNDataCfgs == [count_drop : 0..MaxCountDrop, permute_count : 0..MaxPermute,
                 count_drop_neg : {0, 1}, channels : {2},
                 iter_size : {1, 2}, maintain_before : {0, 1}]

\* mask_pixels = pool_len * pool_len
MaskPixels(row) == Len(row)

\* The subsets of S with n elements (all of S when it has fewer): what the
\* first n entries of np.random.permutation over S can be, as a set.
Draws(S, n) == {D \in SUBSET S : Cardinality(D) = Min(n, Cardinality(S))}

\* The orders of the cells in `cells` by ascending inverted score 10 - row[k + 1],
\* as sequences; cells with equal scores may come in either order.
RECURSIVE AscendingOrders(_, _)
AscendingOrders(row, cells) ==
    IF cells = {}
    THEN {<<>>}
    ELSE LET first == {k \in cells : \A j \in cells : (10 - row[k + 1]) <= (10 - row[j + 1])}
         IN UNION {{<<k>> \o rest : rest \in AscendingOrders(row, cells \ {k})} : k \in first}

\* np.argsort(1 - mask_pred): every order of the cells by ascending inverted
\* score.
Argsorts(row) == AscendingOrders(row, 0..(Len(row) - 1))

PositiveDraws_NoTruncation(permute_count, count_drop) ==
    Draws(0..(permute_count - 1), permute_count)

\* rp = np.random.permutation(np.arange(permute_count)); rp = rp[0: count_drop]
PositiveDraws(permute_count, count_drop) == Draws(0..(permute_count - 1), count_drop)

\* What stands for an IndexError among the sets of cells: no cell is -1.
IndexError == {-1}

\* thres_mask_rand, one sample: the sets of cells that now_mask[...] = 0 may
\* clear, or IndexError when sorted_ids[rp] indexes past the grid.
DropChoices(s, cfg) ==
    IF s.label = 0
    THEN IF cfg.count_drop_neg > 0
         THEN Draws(0..(MaskPixels(s.mask_pred) - 1), cfg.count_drop_neg)
         ELSE {{}}
    ELSE {IF \E r \in rp : r >= MaskPixels(s.mask_pred)
          THEN IndexError
          ELSE {sorted_ids[r + 1] : r \in rp} :
             rp \in PositiveDraws(cfg.permute_count, cfg.count_drop),
             sorted_ids \in Argsorts(s.mask_pred)}

\* thres_mask_rand, the loop over the samples: one choice per sample.
BatchDropChoices(bottom, cfg) ==
    LET choices == [i \in 1..Len(bottom) |-> DropChoices(bottom[i], cfg)]
    IN {d \in [1..Len(bottom) -> UNION {choices[i] : i \in 1..Len(bottom)}] :
            \A i \in 1..Len(bottom) : d[i] \in choices[i]}

\* now_mask: ones, with the drawn cells set to 0.
MaskRow(row, dropped) == [k \in 1..Len(row) |-> IF (k - 1) \in dropped THEN 0 ELSE 1]

OnesRow(row) == [k \in 1..Len(row) |-> 1]

\* After setup: _count_iter is 0 and the tops are reshaped, zero-filled.
ASDNDataSetup(cfg, bottom) ==
    /\ ad_cfg = cfg
    /\ ad_bottom = bottom
    /\ ad_count_iter = 0
    /\ ad_drop = [i \in 1..Len(ad_bottom) |-> {}]
    /\ ad_top0 = [i \in 1..Len(ad_bottom) |-> ZeroRow(ad_bottom[i].mask_pred)]
    /\ ad_top1 = [i \in 1..Len(ad_bottom) |->
                     [c \in 1..ad_cfg.channels |-> ZeroRow(ad_bottom[i].mask_pred)]]
    /\ ad_pc = "setup"

InitASDNData ==
    \E cfg \in ASDNDataCfgs, bottom \in ASDNDataBatches \cup {<<>>} :
        ASDNDataSetup(cfg, bottom)

ASDNDataWrite_NoComplement(mask_thres) ==
    /\ ad_top1' = [i \in 1..Len(mask_thres) |-> [c \in 1..ad_cfg.channels |-> mask_thres[i]]]
    /\ ad_top0' = mask_thres

\* The tops forward writes from mask_thres: mask_thres_block is the tiling of
\* mask_thres, and mask_thres is then replaced by 1 - mask_thres.
ASDNDataWrite(mask_thres) ==
    /\ ad_top1' = [i \in 1..Len(mask_thres) |-> [c \in 1..ad_cfg.channels |-> mask_thres[i]]]
    /\ ad_top0' = [i \in 1..Len(mask_thres) |->
                      [k \in 1..Len(mask_thres[i]) |-> 1 - mask_thres[i][k]]]

\* ASDNDataLayer.forward
ASDNDataForwardEffect ==
    /\ ad_bottom # <<>>
    /\ ad_count_iter' = NextCountIter(ad_count_iter, ad_cfg.iter_size)
    /\ IF ad_count_iter' >= ad_cfg.maintain_before
       THEN \E d \in BatchDropChoices(ad_bottom, ad_cfg) :
               IF \E i \in 1..Len(ad_bottom) : d[i] = IndexError
                  THEN /\ ad_pc' = "IndexError"
                       /\ UNCHANGED <<ad_drop, ad_top0, ad_top1>>
                  ELSE /\ ad_pc' = "thres"
                       /\ ad_drop' = d
                       /\ ASDNDataWrite([i \in 1..Len(ad_bottom) |->
                                            MaskRow(ad_bottom[i].mask_pred, d[i])])
       ELSE /\ ad_pc' = "nodrop"
            /\ ad_drop' = [i \in 1..Len(ad_bottom) |-> {}]
            /\ ASDNDataWrite([i \in 1..Len(ad_bottom) |-> OnesRow(ad_bottom[i].mask_pred)])
    /\ UNCHANGED <<ad_cfg, ad_bottom>>

\* The call as a step of the layer alone
ASDNDataForward == ASDNDataForwardEffect /\ UNCHANGED not_ad

NextASDNData == ASDNDataForward

\* ================== OHEMDataLayer, ASDNDataLayer, ASDNLossLayer in one net
\* The three layers of one net, set up with the same iter_size and
\* maintain_before; a training step is one forward pass of the net, in which
\* the host calls the forward of each layer once.  The layers share no state,
\* so the three calls of a step are one transition.

TrainingStepParams ==
    [iter_size : 1..MaxIterSize, maintain_before : 0..MaxMaintain, ratio10 : {0, 10},
     count_drop : {0, 1}, count_drop_neg : {0, 1}, label : {0, 1}]

\* Each layer after its own setup, on a minibatch of one sample of the label
InitTrainingStep ==
    \E p \in TrainingStepParams :
        /\ OHEMSetup([BBOX_REG |-> FALSE, USE_ASDN |-> TRUE, iter_size |-> p.iter_size,
                      maintain_before |-> p.maintain_before, ratio10 |-> p.ratio10,
                      batch_size |-> 1, hard_negative |-> TRUE],
                     <<[label |-> p.label, prob |-> <<2, 8>>,
                        bbox |-> <<[iw |-> 0, ow |-> 0, d |-> 0],
                                   [iw |-> 0, ow |-> 0, d |-> 0]>>]>>)
        /\ ASDNDataSetup([count_drop |-> p.count_drop, permute_count |-> 2,
                          count_drop_neg |-> p.count_drop_neg, channels |-> 2,
                          iter_size |-> p.iter_size,
                          maintain_before |-> p.maintain_before],
                         <<[label |-> p.label, mask_pred |-> <<2, 8, 5, 5>>]>>)
        /\ ASDNLossSetup([iter_size |-> p.iter_size, maintain_before |-> p.maintain_before,
                          score_thres |-> 0],
                         <<[label |-> p.label, prop_before |-> <<2, 8>>,
                            prop_after |-> <<5, 5>>, f |-> <<0, 1>>, t |-> <<0, 1>>]>>)

\* One training step: the forward of each of the three layers
TrainingStep ==
    /\ OHEMForwardEffect
    /\ ASDNDataForwardEffect
    /\ ASDNLossForwardEffect
    /\ UNCHANGED <<prefetch_vars, setup_vars, sel_vars, at_vars, tn_vars, pl_vars, pd_vars,
                   mi_vars>>

NextTrainingStep == TrainingStep

\* =========================================================== ASTNLossLayer
\* cls_prob has num_classes = 2 columns; class c is at entry c + 1 of a row.

ProbRows == {<<5, 5>>, <<2, 8>>, <<8, 2>>}

ASTNSamples == [label : {0, 1}, prob : ProbRows]

ASTNBatches == UNION {[1..n -> ASTNSamples] : n \in 1..MaxSamples}

\* -np.log(1 - p), times 1000, for p in tenths
NegLog(p) == CASE p = 2 -> 223 [] p = 5 -> 693 [] p = 8 -> 1609

\* 1 / (1 - p), times 1000, for p in tenths
Reciprocal(p) == CASE p = 2 -> 1250 [] p = 5 -> 2000 [] p = 8 -> 5000

OwnLabelProb_ClassZero(prob_pre, labels, i) == prob_pre[i][1]

\* prob_pre[range(batch_size), labels], entry i
OwnLabelProb(prob_pre, labels, i) == prob_pre[i][labels[i] + 1]

\* loss = -np.log(1 - prob_pre[range(batch_size), labels])
LossBeforeLoop(prob_pre, labels) ==
    [i \in 1..Len(prob_pre) |-> NegLog(OwnLabelProb(prob_pre, labels, i))]

\* dloss = 1 / (1 - prob_pre[:, labels]): batch_size rows of batch_size
\* entries, entry (i, j) from the probability row i gives to the label of j
DlossBeforeLoop(prob_pre, labels) ==
    [i \in 1..Len(prob_pre) |->
        [j \in 1..Len(labels) |-> Reciprocal(prob_pre[i][labels[j] + 1])]]

LossAfterLoop_KeepAll(loss, labels) == loss

\* the loop: loss[i] = 0.0 and dloss[i] = 0.0 where labels[i] == 0
LossAfterLoop(loss, labels) ==
    [i \in 1..Len(loss) |-> IF labels[i] = 0 THEN 0 ELSE loss[i]]

DlossAfterLoop(dloss, labels) ==
    [i \in 1..Len(dloss) |->
        IF labels[i] = 0 THEN [j \in 1..Len(dloss[i]) |-> 0] ELSE dloss[i]]

\* np.sum over a matrix
SumAll(rows) == SumSeq([i \in 1..Len(rows) |-> SumSeq(rows[i])])

\* x[...] = v on a blob of the shape of cls_prob: every entry becomes v
Fill(prob_pre, v) ==
    [i \in 1..Len(prob_pre) |-> [c \in 1..Len(prob_pre[i]) |-> v]]

\* After setup: top[0] is reshaped to one entry; the blobs are zero-filled.
ASTNLossSetup(bottom) ==
    /\ at_bottom = bottom
    /\ at_loss = [i \in 1..Len(bottom) |-> 0]
    /\ at_dloss = [i \in 1..Len(bottom) |-> [j \in 1..Len(bottom) |-> 0]]
    /\ at_top = 0
    /\ at_diff = [i \in 1..Len(bottom) |-> ZeroRow(bottom[i].prob)]
    /\ at_pc = "setup"

InitASTNLoss == \E bottom \in ASTNBatches : ASTNLossSetup(bottom)

\* ASTNLossLayer.forward
ASTNLossForward ==
    /\ at_bottom # <<>>
    /\ LET prob_pre == [i \in 1..Len(at_bottom) |-> at_bottom[i].prob]
           labels == [i \in 1..Len(at_bottom) |-> at_bottom[i].label]
           batch_size == Len(prob_pre)
           loss == LossAfterLoop(LossBeforeLoop(prob_pre, labels), labels)
           dloss == DlossAfterLoop(DlossBeforeLoop(prob_pre, labels), labels)
       IN /\ at_loss' = loss
          /\ at_dloss' = dloss
          /\ at_top' = SumSeq(loss) \div batch_size
          /\ at_diff' = Fill(prob_pre, SumAll(dloss) \div batch_size)
    /\ at_pc' = "forward"
    /\ UNCHANGED at_bottom
    /\ UNCHANGED not_at

\* ASTNLossLayer.backward: bottom[0].diff[...] *= top[0].diff
ASTNLossBackward ==
    /\ at_pc = "forward"
    /\ \E top_diff \in {1, 2} :
          at_diff' = [i \in 1..Len(at_diff) |->
                         [c \in 1..Len(at_diff[i]) |-> at_diff[i][c] * top_diff]]
    /\ at_pc' = "backward"
    /\ UNCHANGED <<at_bottom, at_loss, at_dloss, at_top>>
    /\ UNCHANGED not_at

NextASTNLoss == ASTNLossForward \/ ASTNLossBackward

\* =========================================================== ASTNDataLayer
\* One RoI (batch_size 1) with two channels in block_num blocks.  A feature
\* map is a sequence of height rows of width entries; pixel k (0-based, row
\* major) is row k \div width, column k % width.  An angle is in degrees and
\* its sine and cosine are read, in tenths, from a table.  A coordinate is a
\* fraction kept as its numerator: x over XDen, y over YDen; a sampled value
\* is kept as its numerator over XDen * YDen.

Angles == {0, 45, 90, 180, 270}

Cos(alpha) ==
    CASE alpha = 0 -> 10 [] alpha = 45 -> 7 [] alpha = 90 -> 0
      [] alpha = 180 -> -10 [] alpha = 270 -> 0

Sin(alpha) ==
    CASE alpha = 0 -> 0 [] alpha = 45 -> 7 [] alpha = 90 -> 10
      [] alpha = 180 -> 0 [] alpha = 270 -> -10

Sides == 2..MaxSide

ChannelNum == 2

\* The feature maps of the model: every cell distinct, or all ones.
Ramp(height, width, base) ==
    [r \in 1..height |-> [c \in 1..width |-> base + (r - 1) * width + c]]

Ones(height, width) == [r \in 1..height |-> [c \in 1..width |-> 1]]

FeatureMaps(height, width) ==
    {<<Ramp(height, width, 0), Ramp(height, width, 1)>>,
     <<Ones(height, width), Ones(height, width)>>}

Height(feat) == Len(feat[1])
Width(feat) == Len(feat[1][1])

\* np.linspace(-1.0, 1.0, n)[i], times (n - 1)
Linspace(n, i) == 2 * i - (n - 1)

\* scaled_grid = 0.5 * (batch_grid + 1.0) * xy_max has x over XDen and y over
\* YDen, batch_grid being trans_param times the normalized grid of
\* generate_grid.
XDen(height, width) == 20 * (height - 1)
YDen(height, width) == 20 * (width - 1)

\* generate_grid and the rescaling: the numerator of x at pixel k
ScaledX(height, width, alpha, k) ==
    LET xt == Linspace(width, k % width) * (height - 1)
        yt == Linspace(height, k \div width) * (width - 1)
    IN Cos(alpha) * xt + Sin(alpha) * yt + 10 * (width - 1) * (height - 1)

\* generate_grid and the rescaling: the numerator of y at pixel k
ScaledY(height, width, alpha, k) ==
    LET xt == Linspace(width, k % width) * (height - 1)
        yt == Linspace(height, k \div width) * (width - 1)
    IN (0 - Sin(alpha)) * xt + Cos(alpha) * yt + 10 * (width - 1) * (height - 1)

\* np.clip(v, 0, max)
Clip(v, max) == IF v < 0 THEN 0 ELSE IF v > max THEN max ELSE v

\* The four corner indices of pixel k: x0, x1 clipped to x_max = width - 1 and
\* y0, y1 clipped to y_max = height - 1.
Corners(height, width, alpha, k) ==
    LET x == ScaledX(height, width, alpha, k)
        y == ScaledY(height, width, alpha, k)
    IN [x0 |-> Clip(x \div XDen(height, width), width - 1),
        x1 |-> Clip((x + XDen(height, width)) \div XDen(height, width), width - 1),
        y0 |-> Clip(y \div YDen(height, width), height - 1),
        y1 |-> Clip((y + YDen(height, width)) \div YDen(height, width), height - 1)]

\* source[i, j, x, y]: x indexes axis 2 (height entries), y indexes axis 3
\* (width entries); an index past the axis raises IndexError.
InRange(map, x, y) == x < Len(map) /\ y < Len(map[1])

Gather(map, x, y) == map[x + 1][y + 1]

CornersInRange(map, cn) ==
    /\ InRange(map, cn.x0, cn.y0)
    /\ InRange(map, cn.x0, cn.y1)
    /\ InRange(map, cn.x1, cn.y0)
    /\ InRange(map, cn.x1, cn.y1)

\* temp = Ia*wa + Ib*wb + Ic*wc + Id*wd at pixel k, over XDen * YDen
Sample(map, alpha, k) ==
    LET height == Len(map)
        width == Len(map[1])
        cn == Corners(height, width, alpha, k)
        x == ScaledX(height, width, alpha, k)
        y == ScaledY(height, width, alpha, k)
        xd == XDen(height, width)
        yd == YDen(height, width)
    IN Gather(map, cn.x0, cn.y0) * (cn.x1 * xd - x) * (cn.y1 * yd - y)
       + Gather(map, cn.x0, cn.y1) * (cn.x1 * xd - x) * (y - cn.y0 * yd)
       + Gather(map, cn.x1, cn.y0) * (x - cn.x0 * xd) * (cn.y1 * yd - y)
       + Gather(map, cn.x1, cn.y1) * (x - cn.x0 * xd) * (y - cn.y0 * yd)

\* target[...] = temp.reshape(source.shape): pixel k lands at row k \div width,
\* column k % width
BilinearSample(map, alpha) ==
    [r \in 1..Len(map) |->
        [c \in 1..Len(map[1]) |-> Sample(map, alpha, (r - 1) * Len(map[1]) + (c - 1))]]

\* calcu_diff at pixel k: dx over YDen and dy over XDen
DiffX(map, alpha, k) ==
    LET height == Len(map)
        width == Len(map[1])
        cn == Corners(height, width, alpha, k)
        y == ScaledY(height, width, alpha, k)
        yd == YDen(height, width)
    IN Gather(map, cn.x0, cn.y0) * (y - cn.y1 * yd)
       + Gather(map, cn.x0, cn.y1) * (cn.y0 * yd - y)
       + Gather(map, cn.x1, cn.y0) * (cn.y1 * yd - y)
       + Gather(map, cn.x1, cn.y1) * (y - cn.y0 * yd)

DiffY(map, alpha, k) ==
    LET height == Len(map)
        width == Len(map[1])
        cn == Corners(height, width, alpha, k)
        x == ScaledX(height, width, alpha, k)
        xd == XDen(height, width)
    IN Gather(map, cn.x0, cn.y0) * (x - cn.x1 * xd)
       + Gather(map, cn.x0, cn.y1) * (cn.x1 * xd - x)
       + Gather(map, cn.x1, cn.y0) * (cn.x0 * xd - x)
       + Gather(map, cn.x1, cn.y1) * (x - cn.x0 * xd)

\* dtheta at pixel k, with xt = yt = k, over 10 * XDen * YDen
DTheta(map, alpha, k) ==
    DiffX(map, alpha, k) * XDen(Len(map), Len(map[1])) * (k * Cos(alpha) - k * Sin(alpha))
    + DiffY(map, alpha, k) * YDen(Len(map), Len(map[1])) * (0 - k * Cos(alpha) - k * Sin(alpha))

\* channels = np.array(range(channel_num)).reshape([block_num, -1]), row i
BlockChannels(block_num, i) ==
    ((i - 1) * (ChannelNum \div block_num) + 1)..(i * (ChannelNum \div block_num))

\* The block of channel j
BlockOf(block_num, j) == ((j - 1) \div (ChannelNum \div block_num)) + 1

ZeroMaps(pool5) ==
    [j \in 1..Len(pool5) |->
        [r \in 1..Height(pool5) |-> [c \in 1..Width(pool5) |-> 0]]]

\* After setup: top[0] has the shape of pool5; the blobs are zero-filled.
ASTNDataSetup(block_num, trans_param, pool5) ==
    /\ tn_block_num = block_num
    /\ tn_trans_param = trans_param
    /\ tn_pool5 = pool5
    /\ tn_corners = <<>>
    /\ tn_top = ZeroMaps(pool5)
    /\ tn_pool5_diff = ZeroMaps(pool5)
    /\ tn_theta_diff = [i \in 1..block_num |-> 0]
    /\ tn_pc = "setup"

InitASTNData ==
    \E block_num \in {1, 2}, height \in Sides, width \in Sides :
        \E trans_param \in [1..block_num -> Angles],
           pool5 \in FeatureMaps(height, width) :
            ASTNDataSetup(block_num, trans_param, pool5)

\* The angle that generate_grid is given for channel j
AngleOf(j) == tn_trans_param[BlockOf(tn_block_num, j)]

\* ASTNDataLayer.forward
ASTNDataForward ==
    LET height == Height(tn_pool5)
        width == Width(tn_pool5)
        pixels == height * width
        corners == [j \in 1..Len(tn_pool5) |->
                       [p \in 1..pixels |-> Corners(height, width, AngleOf(j), p - 1)]]
    IN /\ tn_corners' = corners
       /\ IF \A j \in 1..Len(tn_pool5) : \A p \in 1..pixels :
                 CornersInRange(tn_pool5[j], corners[j][p])
          THEN /\ tn_top' = [j \in 1..Len(tn_pool5) |->
                                BilinearSample(tn_pool5[j], AngleOf(j))]
               /\ tn_pool5_diff' = [j \in 1..Len(tn_pool5) |->
                                       BilinearSample(Ones(height, width), AngleOf(j))]
               /\ tn_theta_diff' =
                     [i \in 1..tn_block_num |->
                         SumSeq([j \in 1..Len(tn_pool5) |->
                             IF j \in BlockChannels(tn_block_num, i)
                             THEN SumSeq([p \in 1..pixels |->
                                      DTheta(tn_pool5[j], AngleOf(j), p - 1)])
                             ELSE 0])]
               /\ tn_pc' = "forward"
          ELSE /\ tn_pc' = "IndexError"
               /\ UNCHANGED <<tn_top, tn_pool5_diff, tn_theta_diff>>
       /\ UNCHANGED <<tn_block_num, tn_trans_param, tn_pool5>>
       /\ UNCHANGED not_tn

\* ASTNDataLayer.backward, top[0].diff filled with one value
ASTNDataBackward ==
    /\ tn_pc = "forward"
    /\ \E top_diff \in {1, 2} :
          /\ tn_pool5_diff' =
                [j \in 1..Len(tn_pool5_diff) |->
                    [r \in 1..Len(tn_pool5_diff[j]) |->
                        [c \in 1..Len(tn_pool5_diff[j][r]) |->
                            tn_pool5_diff[j][r][c] * top_diff]]]
          /\ tn_theta_diff' = [i \in 1..Len(tn_theta_diff) |-> tn_theta_diff[i] * top_diff]
    /\ tn_pc' = "backward"
    /\ UNCHANGED <<tn_block_num, tn_trans_param, tn_pool5, tn_corners, tn_top>>
    /\ UNCHANGED not_tn

NextASTNData == ASTNDataForward \/ ASTNDataBackward

\* ========================================================= specifications
\* One specification per layer; the state of the other layers stays as
\* constructed.

ParkedPrefetch == PrefetchConstructed(FALSE)
ParkedSetup == InitSetup
ParkedSelect ==
    SelectInputs(<<>>, <<>>, [batch_size |-> 0, ratio10 |-> 10, hard_negative |-> FALSE])
ParkedASDNLoss ==
    ASDNLossSetup([iter_size |-> 1, maintain_before |-> 0, score_thres |-> 0], <<>>)
ParkedASDNData ==
    ASDNDataSetup([count_drop |-> 0, permute_count |-> 0, count_drop_neg |-> 0,
                   channels |-> 1, iter_size |-> 1, maintain_before |-> 0], <<>>)
ParkedASTNLoss == ASTNLossSetup(<<>>)
ParkedASTNData == ASTNDataSetup(1, <<0>>, <<Ones(2, 2), Ones(2, 2)>>)

ParkedOHEM ==
    OHEMSetup([BBOX_REG |-> FALSE, USE_ASDN |-> FALSE, iter_size |-> 1,
               maintain_before |-> 0, ratio10 |-> 0, batch_size |-> 1,
               hard_negative |-> TRUE], <<>>)

ParkedPretrainLoss == PretrainLossSetup(FALSE, PretrainBottom(1, 1, <<0, 1>>, <<<<5, 5>>>>, "none"))

ParkedPretrainData ==
    PretrainDataSetup([drop_size |-> 1, drop_stride |-> 1],
                      <<[ch \in 1..2 |-> [x \in {0} |-> [y \in {0} |-> 0]]]>>)

ParkedMinibatchInds ==
    MinibatchConstructed([owner |-> "BlobFetcher", len |-> 1, ims_per_batch |-> 1,
                          aspect_grouping |-> FALSE, horz |-> {}], <<0>>)

\* The initial states of each specification: the layer it is about as its
\* construction or setup leaves it, the other layers parked.
StartPrefetch ==
    /\ InitPrefetch
    /\ ParkedSetup
    /\ ParkedSelect
    /\ ParkedASDNLoss
    /\ ParkedASDNData
    /\ ParkedASTNLoss
    /\ ParkedASTNData
    /\ ParkedOHEM
    /\ ParkedPretrainLoss
    /\ ParkedPretrainData
    /\ ParkedMinibatchInds

StartSetup ==
    /\ InitSetup
    /\ ParkedPrefetch
    /\ ParkedSelect
    /\ ParkedASDNLoss
    /\ ParkedASDNData
    /\ ParkedASTNLoss
    /\ ParkedASTNData
    /\ ParkedOHEM
    /\ ParkedPretrainLoss
    /\ ParkedPretrainData
    /\ ParkedMinibatchInds

StartTopK ==
    /\ InitTopK
    /\ ParkedPrefetch
    /\ ParkedSetup
    /\ ParkedASDNLoss
    /\ ParkedASDNData
    /\ ParkedASTNLoss
    /\ ParkedASTNData
    /\ ParkedOHEM
    /\ ParkedPretrainLoss
    /\ ParkedPretrainData
    /\ ParkedMinibatchInds

StartRatio ==
    /\ InitRatio
    /\ ParkedPrefetch
    /\ ParkedSetup
    /\ ParkedASDNLoss
    /\ ParkedASDNData
    /\ ParkedASTNLoss
    /\ ParkedASTNData
    /\ ParkedOHEM
    /\ ParkedPretrainLoss
    /\ ParkedPretrainData
    /\ ParkedMinibatchInds

StartASDNLoss ==
    /\ InitASDNLoss
    /\ ParkedPrefetch
    /\ ParkedSetup
    /\ ParkedSelect
    /\ ParkedASDNData
    /\ ParkedASTNLoss
    /\ ParkedASTNData
    /\ ParkedOHEM
    /\ ParkedPretrainLoss
    /\ ParkedPretrainData
    /\ ParkedMinibatchInds

StartASDNData ==
    /\ InitASDNData
    /\ ParkedPrefetch
    /\ ParkedSetup
    /\ ParkedSelect
    /\ ParkedASDNLoss
    /\ ParkedASTNLoss
    /\ ParkedASTNData
    /\ ParkedOHEM
    /\ ParkedPretrainLoss
    /\ ParkedPretrainData
    /\ ParkedMinibatchInds

StartASTNLoss ==
    /\ InitASTNLoss
    /\ ParkedASTNData
    /\ ParkedPrefetch
    /\ ParkedSetup
    /\ ParkedSelect
    /\ ParkedASDNLoss
    /\ ParkedASDNData
    /\ ParkedOHEM
    /\ ParkedPretrainLoss
    /\ ParkedPretrainData
    /\ ParkedMinibatchInds

StartASTNData ==
    /\ InitASTNData
    /\ ParkedPrefetch
    /\ ParkedSetup
    /\ ParkedSelect
    /\ ParkedASDNLoss
    /\ ParkedASDNData
    /\ ParkedASTNLoss
    /\ ParkedOHEM
    /\ ParkedPretrainLoss
    /\ ParkedPretrainData
    /\ ParkedMinibatchInds

StartOHEM ==
    /\ InitOHEM
    /\ ParkedPrefetch
    /\ ParkedSetup
    /\ ParkedSelect
    /\ ParkedASDNLoss
    /\ ParkedASDNData
    /\ ParkedASTNLoss
    /\ ParkedASTNData
    /\ ParkedPretrainLoss
    /\ ParkedPretrainData
    /\ ParkedMinibatchInds

StartPretrainLoss ==
    /\ InitPretrainLoss
    /\ ParkedPrefetch
    /\ ParkedSetup
    /\ ParkedSelect
    /\ ParkedASDNLoss
    /\ ParkedASDNData
    /\ ParkedASTNLoss
    /\ ParkedASTNData
    /\ ParkedOHEM
    /\ ParkedPretrainData
    /\ ParkedMinibatchInds

StartPretrainData ==
    /\ InitPretrainData
    /\ ParkedPrefetch
    /\ ParkedSetup
    /\ ParkedSelect
    /\ ParkedASDNLoss
    /\ ParkedASDNData
    /\ ParkedASTNLoss
    /\ ParkedASTNData
    /\ ParkedOHEM
    /\ ParkedPretrainLoss
    /\ ParkedMinibatchInds

StartMinibatchInds ==
    /\ InitMinibatchInds
    /\ ParkedPrefetch
    /\ ParkedSetup
    /\ ParkedSelect
    /\ ParkedASDNLoss
    /\ ParkedASDNData
    /\ ParkedASTNLoss
    /\ ParkedASTNData
    /\ ParkedOHEM
    /\ ParkedPretrainLoss
    /\ ParkedPretrainData

StartTrainingStep ==
    /\ InitTrainingStep
    /\ ParkedPrefetch
    /\ ParkedSetup
    /\ ParkedSelect
    /\ ParkedASTNLoss
    /\ ParkedASTNData
    /\ ParkedPretrainLoss
    /\ ParkedPretrainData
    /\ ParkedMinibatchInds

SpecPrefetch == StartPrefetch /\ [][NextPrefetch]_vars

SpecPrefetchFair == StartPrefetch /\ [][NextPrefetch]_vars /\ PrefetchFairness

SpecSetup == StartSetup /\ [][NextSetup]_vars

SpecTopK == StartTopK /\ [][NextTopK]_vars

SpecRatio == StartRatio /\ [][NextRatio]_vars

SpecASDNLoss == StartASDNLoss /\ [][NextASDNLoss]_vars

SpecASDNData == StartASDNData /\ [][NextASDNData]_vars

SpecASTNLoss == StartASTNLoss /\ [][NextASTNLoss]_vars

SpecASTNData == StartASTNData /\ [][NextASTNData]_vars

SpecOHEM == StartOHEM /\ [][NextOHEM]_vars

SpecPretrainLoss == StartPretrainLoss /\ [][NextPretrainLoss]_vars

SpecPretrainData == StartPretrainData /\ [][NextPretrainData]_vars

SpecMinibatchInds == StartMinibatchInds /\ [][NextMinibatchInds]_vars

SpecTrainingStep == StartTrainingStep /\ [][NextTrainingStep]_vars

\* ------------------------------------------------ claims on prefetching

\* A step that appends to, respectively removes from, queue p.
PutStep(p) == Len(queues'[p]) = Len(queues[p]) + 1
GetStep(p) == Len(queues'[p]) = Len(queues[p]) - 1

\* C1: with prefetching, no queue between a BlobFetcher and the layer ever holds
\* more than 10 minibatches; a put happens only on a queue holding fewer than 10
\* (the producer blocks on a full queue) and a get only on a queue holding at
\* least one (the consumer blocks on an empty queue), under every interleaving.
C1_QueueBounded ==
    /\ [](\A p \in ProcIds : Len(queues[p]) <= QueueCap)
    /\ [][\A p \in ProcIds :
            /\ PutStep(p) => Len(queues[p]) < QueueCap
            /\ GetStep(p) => /\ Len(queues[p]) > 0
                             /\ layer_pc = "get" /\ layer_pc' = "idle"]_vars

\* The producer is blocked in put on a full queue while the consumer is idle.
C1_Witness ==
    /\ use_prefetch
    /\ blob_queue # 0
    /\ Len(queues[blob_queue]) = QueueCap
    /\ fetcher[blob_queue].status = "alive"
    /\ fetcher[blob_queue].pc = "put"
    /\ last_blob # NoBlob

\* C2 (as claimed): once the parent's exit handlers have run, every prefetch
\* process that set_roidb started has been terminated and then joined, and none
\* is left running.
C2_AllTerminatedAndJoined ==
    parent.state = "cleanup_done" =>
        \A p \in ProcIds :
            fetcher[p].status # "none" =>
                /\ fetcher[p].status = "dead"
                /\ fetcher[p].terminated
                /\ fetcher[p].joined


\* The consumer is blocked in get on the empty current queue; the producer of
\* that queue is blocked in put.
ConsumerBlocked == layer_pc = "get" /\ ~GetEnabled(queues[blob_queue])
ProducerBlocked ==
    /\ blob_queue # 0
    /\ fetcher[blob_queue].status = "alive"
    /\ fetcher[blob_queue].pc = "put"
    /\ ~PutEnabled(queues[blob_queue])

\* C20: with prefetching and the BlobFetcher scheduled fairly and not
\* terminated, every forward call that waits in get, on an empty queue
\* included, eventually receives a minibatch, and the producer and the
\* consumer of the current queue are never both blocked.
C20_BlockedForwardIsServed ==
    /\ (layer_pc = "get") ~> (layer_pc = "idle" /\ last_blob # NoBlob)
    /\ [](layer_pc = "get" => (fetcher[blob_queue].status = "alive"
                                  /\ ~fetcher[blob_queue].terminated))
    /\ [](~(ConsumerBlocked /\ ProducerBlocked))

\* A forward call, after one that was served, waiting in get on an empty
\* queue while its producer is still building the next minibatch.
C20_Witness ==
    /\ use_prefetch
    /\ ConsumerBlocked
    /\ fetcher[blob_queue].status = "alive"
    /\ fetcher[blob_queue].pc = "inds"
    /\ last_blob # NoBlob


\* db_inds of the last call: IMS_PER_BATCH indices of the roidb, and none of
\* the indices returned since the last shuffle returned twice.
FullDistinctBatch ==
    /\ Len(mi_db_inds) = mi_cfg.ims_per_batch
    /\ \A k \in 1..Len(mi_db_inds) : mi_db_inds[k] \in 0..(mi_cfg.len - 1)
    /\ \A j, k \in 1..Len(mi_seen) : j # k => mi_seen[j] # mi_seen[k]

\* C21 (as claimed): for a roidb with at least IMS_PER_BATCH entries, every
\* call of _get_next_minibatch_inds, in RoIDataLayer and in BlobFetcher,
\* returns exactly IMS_PER_BATCH indices, all within 0..len(roidb)-1, and no
\* index is returned twice between two consecutive reshuffles.
C21_FullDistinctBatches ==
    mi_pc \in {"returned", "AttributeError"} => (mi_pc = "returned" /\ FullDistinctBatch)

\* The same on the objects whose shuffle did not raise: every call that
\* returns does return such a batch.
C21_OnShuffledObjects == mi_pc = "returned" => FullDistinctBatch

\* ------------------------------------------------------ claims on setup

\* C3 (as claimed): for every layer class, whenever the number of output slots
\* the host supplies differs from the number of names the layer records in its
\* name-to-top map, setup fails with an assertion error: it raises, and never
\* completes.
C3_SetupAsserts ==
    (setup_layer # "none" /\ setup_ntop # NamesRecorded(setup_layer, setup_cfg))
        => setup_outcome \in {"AssertionError", "IndexError"}

\* ------------------------------------------------ claims on OHEMDataLayer

\* C13: the loss that OHEMDataLayer.forward passes to the selector has one
\* entry per proposal; entry i is the classification log-loss of proposal i
\* plus, when BBOX_REG is on and label i > 0, the proposal's weighted
\* smooth-L1 regression loss.
C13_OneLossPerProposal ==
    oh_out.call # "none" =>
        /\ Len(oh_loss) = Len(oh_bottom)
        /\ \A i \in 1..Len(oh_bottom) :
              oh_loss[i] =
                  ClsLoss(oh_bottom[i].prob[oh_bottom[i].label + 1])
                  + (IF oh_cfg.BBOX_REG /\ oh_bottom[i].label > 0
                     THEN SumSeq([k \in 1..Len(oh_bottom[i].bbox) |->
                              oh_bottom[i].bbox[k].ow
                                  * SmoothL1(oh_bottom[i].bbox[k].iw * oh_bottom[i].bbox[k].d)])
                     ELSE 0)

\* BBOX_REG on, a foreground proposal with both smooth-L1 branches in its
\* regression loss next to a background proposal.
C13_Witness ==
    /\ oh_out.call # "none"
    /\ oh_cfg.BBOX_REG
    /\ Len(oh_bottom) = 2
    /\ oh_bottom[1].label = 1 /\ oh_bottom[1].prob = <<2, 8>>
    /\ oh_bottom[1].bbox[2].d = -20
    /\ oh_bottom[2].label = 0
    /\ oh_loss[1] = 223 + 125 + 1500

\* ------------------------------------------ claims on hard-example selection

IsDescending(loss, inds) ==
    \A a, b \in 1..Len(inds) : a < b => loss[inds[a] + 1] >= loss[inds[b] + 1]

NoDuplicates(inds) ==
    \A a, b \in 1..Len(inds) : a # b => inds[a] # inds[b]

\* C4: for a loss vector of length N and configured count K, top-K selection
\* returns exactly min(K, N) indices, duplicate-free, within 0..N-1 and ordered
\* by descending input loss; for losses [0.1, 0.9, 0.3, 0.7] and K = 2 it
\* returns the indices 1 then 3.
C4_TopK ==
    sel_out.call = "get_ohem_minibatch" =>
        /\ Len(sel_out.hard_inds) = Min(sel_cfg.batch_size, Len(sel_loss))
        /\ NoDuplicates(sel_out.hard_inds)
        /\ Range(sel_out.hard_inds) \subseteq 0..(Len(sel_loss) - 1)
        /\ IsDescending(sel_loss, sel_out.hard_inds)
        /\ (sel_loss = <<1, 9, 3, 7>> /\ sel_cfg.batch_size = 2
                => sel_out.hard_inds = <<1, 3>>)

\* Top-2 selection has been applied to the losses [0.1, 0.9, 0.3, 0.7].
C4_Witness ==
    /\ sel_out.call = "get_ohem_minibatch"
    /\ sel_loss = <<1, 9, 3, 7>>
    /\ sel_cfg.batch_size = 2
    /\ sel_out.hard_inds = <<1, 3>>

\* C5: for every label vector and ratio r, the ratio-balanced selection returns
\* a foreground set no larger than the number of foreground proposals and a
\* background set no larger than r times the foreground count returned, nor
\* than the configured cap, and no index is in both sets.
C5_Ratio ==
    sel_out.call = "get_ohem_minibatch_ratio" =>
        /\ Len(sel_out.fg) <= Cardinality(Foreground(sel_labels))
        /\ Range(sel_out.fg) \subseteq Foreground(sel_labels)
        /\ 10 * Len(sel_out.bg) <= sel_cfg.ratio10 * Len(sel_out.fg)
        /\ Len(sel_out.bg) <= sel_cfg.batch_size
        /\ Range(sel_out.fg) \cap Range(sel_out.bg) = {}
        /\ NoDuplicates(sel_out.hard_inds)

\* Fewer positives than requested: all of them are taken, and the ratio, not
\* the number of negatives available, limits the background set.
C5_Witness ==
    /\ sel_out.call = "get_ohem_minibatch_ratio"
    /\ Cardinality(Foreground(sel_labels)) = 1
    /\ Cardinality(Background(sel_labels)) = 3
    /\ sel_cfg.batch_size = 3
    /\ sel_cfg.ratio10 = 20
    /\ Len(sel_out.fg) = 1
    /\ Len(sel_out.bg) = 2

\* ------------------------------------------------ claims on ASDNLossLayer

AllZero(rows) == \A i \in 1..Len(rows) : \A c \in 1..Len(rows[i]) : rows[i][c] = 0

\* C6 (as claimed): counting forward calls from setup, the gradient written on
\* mask_pred is all zeros for each of the first maintain_before forward calls.
C6_FirstCallsDisabled ==
    (al_calls >= 1 /\ al_calls <= al_cfg.maintain_before) => AllZero(al_diff)

\* C7: in an enabled forward call, a sample whose label is 0, or whose label is
\* positive without prop_after + score_thres < prop_before for that label, adds
\* exactly zero to the loss and has an all-zero gradient row on mask_pred; the
\* loss is the sum over the other samples only.
C7_OnlyHurtSamplesContribute ==
    al_pc = "enabled" =>
        LET N == Len(al_bottom)
            hurt(i) == /\ al_bottom[i].label > 0
                       /\ al_bottom[i].prop_after[al_bottom[i].label + 1] + al_cfg.score_thres
                              < al_bottom[i].prop_before[al_bottom[i].label + 1]
            total == SumSeq([i \in 1..N |->
                        IF hurt(i)
                        THEN SumSeq([c \in 1..Len(al_bottom[i].f) |->
                                CellLoss(al_bottom[i].f[c], al_bottom[i].t[c])])
                        ELSE 0])
        IN /\ \A i \in 1..N :
                 ~hurt(i) => /\ \A c \in 1..Len(al_lZ[i]) : al_lZ[i][c] = 0
                             /\ \A c \in 1..Len(al_diff[i]) : al_diff[i][c] = 0
           /\ al_loss = total \div CountBit(al_bottom)

\* An enabled call on a batch of a positive sample inside the margin (its
\* probability dropped by exactly score_thres) and one beyond it.
C7_Witness ==
    /\ al_pc = "enabled"
    /\ Len(al_bottom) = 2
    /\ al_cfg.score_thres = 3
    /\ al_bottom[1].label = 1 /\ al_bottom[1].prop_before = <<2, 8>>
    /\ al_bottom[1].prop_after = <<5, 5>>
    /\ al_bottom[2].label = 1 /\ al_bottom[2].prop_before = <<2, 8>>
    /\ al_bottom[2].prop_after = <<8, 2>>
    /\ al_loss > 0
    /\ \E c \in 1..Len(al_diff[2]) : al_diff[2][c] # 0


\* C18 (as claimed): after setup no call returns _count_iter or _count to 0
\* or to a smaller value than it held before.
C18_CountersNeverDecrease ==
    [][al_count_iter' >= al_count_iter /\ al_count' >= al_count]_vars

\* C18 (amended): setup leaves both counters at 0 and backward changes
\* neither; every forward moves _count_iter one step round the cycle
\* 0..iter_size-1, so that it is the number of forward calls modulo iter_size
\* and returns to 0 on every iter_size-th call; _count never decreases.
C18_CountIterCycles ==
    /\ [](al_pc = "setup" => (al_count_iter = 0 /\ al_count = 0))
    /\ [](/\ al_count_iter \in 0..(al_cfg.iter_size - 1)
          /\ al_count_iter = al_calls % al_cfg.iter_size)
    /\ [][/\ al_pc' = "backward" => (al_count_iter' = al_count_iter /\ al_count' = al_count)
          /\ al_count' >= al_count
          /\ al_count_iter' < al_count_iter =>
                (al_count_iter' = 0 /\ al_count_iter = al_cfg.iter_size - 1)]_vars

\* Two forward calls with iter_size 2: the counter is back at 0, and one of
\* the calls dumped its debug images.
C18_Witness ==
    /\ al_cfg.iter_size = 2
    /\ al_calls = 2
    /\ al_count_iter = 0
    /\ al_count = 1

\* ---------------------------------------- claims on ASDNPretrainLossLayer

\* The replicas of sample i (1-based) that reach the smallest probability of
\* the sample's class, as 0-based window numbers j
HardestReplicas(bottom, i) ==
    LET N == Len(bottom.f)
        p(j) == bottom.prop[j * N + i][bottom.labels_pos[i] + 1]
        js == 0..((Len(bottom.conv_feat_mask) \div N) - 1)
    IN {j \in js : \A k \in js : p(j) <= p(k)}

\* C14: after a forward that ran through, the mask label of every positive
\* sample i is the mask of the replica, among rows j*N + i of that sample,
\* with the smallest probability of the sample's ground-truth class, and of
\* the lowest such j when several replicas tie.
C14_HardestReplicaFirstOnTies ==
    pl_pc = "forward" =>
        \A i \in 1..Len(pl_bottom.f) :
            pl_mask_label[i] =
                LET hardest == HardestReplicas(pl_bottom, i)
                    first == CHOOSE j \in hardest : \A k \in hardest : j <= k
                IN pl_bottom.conv_feat_mask[first * Len(pl_bottom.f) + i]

\* Two samples, two windows: the replicas of the first sample tie, the second
\* window is the hardest for the second sample.
C14_Witness ==
    /\ pl_pc = "forward"
    /\ Len(pl_bottom.f) = 2
    /\ pl_bottom.prop = <<<<5, 5>>, <<5, 5>>, <<5, 5>>, <<5, 2>>>>
    /\ pl_mask_label = <<WindowMask(0), WindowMask(1)>>

\* C16 (as claimed): with drop_neg, the gradient left on mask_pred after
\* forward and after backward is zero at every cell whose mask label is 0
\* and that the random draw did not retain (the cells where bp_mask is 0).
C16_DroppedCellsHaveZeroGradient ==
    (pl_drop_neg /\ pl_pc \in {"forward", "backward"}) =>
        \A i \in 1..Len(pl_diff) : \A c \in 1..Len(pl_diff[i]) :
            pl_bp_mask[i][c] = 0 => pl_diff[i][c] = 0

\* C19: forward ends in an assertion failure exactly when the row count of
\* labels_pos or of rois_pos differs from that of mask_pred, the row count of
\* prop differs from that of conv_feat_mask, or some label is not greater
\* than 0; and a call that ends so leaves the loss output and the gradient on
\* mask_pred as they were before it.
C19_AbortLeavesOutputs ==
    /\ [](pl_pc \in {"forward", "AssertionError"} =>
            (pl_pc = "AssertionError" <=>
                \/ Len(pl_bottom.labels_pos) # Len(pl_bottom.f)
                \/ pl_bottom.rois_rows # Len(pl_bottom.f)
                \/ Len(pl_bottom.prop) # Len(pl_bottom.conv_feat_mask)
                \/ \E i \in 1..Len(pl_bottom.labels_pos) : pl_bottom.labels_pos[i] <= 0))
    /\ [][pl_pc' = "AssertionError" => (pl_loss' = pl_loss /\ pl_diff' = pl_diff)]_vars

\* A minibatch with one rois row too many, after a call that wrote a loss
\* and a gradient.
C19_Witness ==
    /\ pl_pc = "AssertionError"
    /\ pl_bottom.rois_rows # Len(pl_bottom.f)
    /\ Len(pl_bottom.labels_pos) = Len(pl_bottom.f)
    /\ pl_loss > 0
    /\ pl_diff[1][1] # 0

\* ---------------------------------------- claims on ASDNPretrainDataLayer

\* C15: generate_feature emits one replica per sample per window position of
\* the stride grid, ceil(pool_len / drop_stride) squared positions, the replica
\* of sample s for window number cnt at row cnt * sample_num + s; the replica
\* equals the sample's input except that the cells of the window are zero in
\* every channel, and its mask is 1 exactly on the cells of the window.
C15_OneReplicaPerWindow ==
    pd_pc = "forward" =>
        LET sample_num == Len(pd_conv_feat)
            cells == DOMAIN pd_conv_feat[1][1]
            pool_len == Cardinality(cells)
            rep_num == CHOOSE n \in 1..pool_len :
                           /\ n * pd_cfg.drop_stride >= pool_len
                           /\ (n - 1) * pd_cfg.drop_stride < pool_len
        IN /\ DOMAIN pd_rep = 1..(sample_num * rep_num * rep_num)
           /\ DOMAIN pd_mask = DOMAIN pd_rep
           /\ \A cnt \in 0..(rep_num * rep_num - 1), s \in 0..(sample_num - 1) :
                 LET r == cnt * sample_num + s + 1
                 IN /\ \A x \in cells, y \in cells :
                          pd_mask[r][x][y] =
                              IF /\ x \in WindowIndices(cnt \div rep_num, pd_cfg, pool_len)
                                 /\ y \in WindowIndices(cnt % rep_num, pd_cfg, pool_len)
                              THEN 1 ELSE 0
                    /\ \A ch \in DOMAIN pd_conv_feat[1], x \in cells, y \in cells :
                          pd_rep[r][ch][x][y] =
                              IF pd_mask[r][x][y] = 1 THEN 0
                              ELSE pd_conv_feat[s + 1][ch][x][y]

\* Two samples on a 3 x 3 grid, 2 x 2 windows at stride 2: four windows, eight
\* rows; the last row is the second sample with the window moved back to
\* cells 1..2 in both directions.
C15_Witness ==
    /\ pd_pc = "forward"
    /\ Len(pd_conv_feat) = 2
    /\ pd_cfg = [drop_size |-> 2, drop_stride |-> 2]
    /\ DOMAIN pd_rep = 1..8
    /\ pd_mask[8] = [x \in 0..2 |-> [y \in 0..2 |-> IF x >= 1 /\ y >= 1 THEN 1 ELSE 0]]
    /\ pd_rep[8][2][0][1] = pd_conv_feat[2][2][0][1]
    /\ pd_rep[8][2][0][1] # pd_conv_feat[1][2][0][1]
    /\ pd_rep[8][2][2][2] = 0

\* ------------------------------------ claims on the three layers together

\* The three _count_iter are equal and within 0..iter_size-1
CountersAgree ==
    /\ oh_count_iter = ad_count_iter
    /\ ad_count_iter = al_count_iter
    /\ al_count_iter \in 0..(al_cfg.iter_size - 1)

\* Top 'mask_thres' blocks no cell: every cell is kept
AllCellsKept == \A i \in 1..Len(ad_top0) : \A k \in 1..Len(ad_top0[i]) : ad_top0[i][k] = 0

\* C22 (as claimed): with the same iter_size and maintain_before and one
\* forward of each layer per training step, the three _count_iter are equal
\* after every step and within 0..iter_size-1; in every step ASDNDataLayer
\* emits the mask that keeps all cells if and only if ASDNLossLayer takes its
\* disabled branch, and in those steps OHEMDataLayer selects by top-K.
C22_AllKeptIffDisabled ==
    /\ CountersAgree
    /\ al_calls > 0 =>
          /\ AllCellsKept <=> al_pc = "disabled"
          /\ al_pc = "disabled" => oh_out.call = "get_ohem_minibatch"

\* C22 (amended): the counters agree as claimed; ASDNDataLayer skips
\* thres_mask_rand, and so keeps all cells, in exactly the steps in which
\* ASDNLossLayer takes its disabled branch, and in those steps OHEMDataLayer
\* selects by top-K.  (In the other steps the mask is the one thres_mask_rand
\* draws, which may keep all cells too.)
C22_SkipsDropIffDisabled ==
    /\ CountersAgree
    /\ al_calls > 0 =>
          /\ ad_pc = "nodrop" <=> al_pc = "disabled"
          /\ ad_pc = "nodrop" => AllCellsKept
          /\ al_pc = "disabled" => oh_out.call = "get_ohem_minibatch"

\* The second step with iter_size 2 and maintain_before 1: the counters are
\* back at 0, the loss is disabled, no cell is dropped and, although a ratio
\* is configured, the selection is top-K.
C22_Witness ==
    /\ al_cfg.iter_size = 2
    /\ al_cfg.maintain_before = 1
    /\ oh_cfg.ratio10 = 10
    /\ al_calls = 2
    /\ oh_count_iter = 0 /\ ad_count_iter = 0 /\ al_count_iter = 0
    /\ al_pc = "disabled"
    /\ ad_pc = "nodrop"
    /\ oh_out.call = "get_ohem_minibatch"

\* ------------------------------------------------ claims on ASDNDataLayer

\* The cells of row i that the mask suppresses (mask_thres 0, top value 1).
Suppressed(i) == {k \in 1..Len(ad_top0[i]) : ad_top0[i][k] = 1}

\* C8: for every predicted importance map and every positive-label sample,
\* thres_mask_rand suppresses at most count_drop cells and at least 0, and the
\* suppressed cells are distinct positions of that sample's pooled grid.
C8_AtMostCountDrop ==
    ad_pc = "thres" =>
        \A i \in 1..Len(ad_bottom) :
            ad_bottom[i].label > 0 =>
                /\ Cardinality(Suppressed(i)) <= ad_cfg.count_drop
                /\ Cardinality(Suppressed(i)) >= 0
                /\ ad_drop[i] \subseteq 0..(MaskPixels(ad_bottom[i].mask_pred) - 1)
                /\ Suppressed(i) = {k + 1 : k \in ad_drop[i]}
                /\ Cardinality(ad_drop[i]) = Min(ad_cfg.count_drop, ad_cfg.permute_count)

\* A positive sample with count_drop = 2 of permute_count = 3 candidates: two
\* cells are suppressed.
C8_Witness ==
    /\ ad_pc = "thres"
    /\ ad_cfg.count_drop = 2
    /\ ad_cfg.permute_count = 3
    /\ Len(ad_bottom) = 2
    /\ ad_bottom[1].label = 1
    /\ ad_bottom[1].mask_pred = <<2, 8, 5, 5>>
    /\ Cardinality(Suppressed(1)) = 2

\* C23: after every forward call that returns, the two outputs are exact
\* complements: for every sample, every channel and every cell,
\* mask_thres + mask_thres_block = 1 and both are 0 or 1, so that a cell is
\* labelled blocked exactly when it is zeroed in every channel.
C23_OutputsAreComplements ==
    ad_pc \in {"nodrop", "thres"} =>
        /\ Len(ad_top0) = Len(ad_bottom) /\ Len(ad_top1) = Len(ad_bottom)
        /\ \A i \in 1..Len(ad_bottom) :
              /\ Len(ad_top1[i]) = ad_cfg.channels
              /\ \A c \in 1..ad_cfg.channels, k \in 1..MaskPixels(ad_bottom[i].mask_pred) :
                    /\ ad_top0[i][k] \in {0, 1}
                    /\ ad_top1[i][c][k] \in {0, 1}
                    /\ ad_top0[i][k] + ad_top1[i][c][k] = 1
              /\ \A k \in 1..MaskPixels(ad_bottom[i].mask_pred) :
                    ad_top0[i][k] = 1 <=> \A c \in 1..ad_cfg.channels : ad_top1[i][c][k] = 0

\* A call that blocked the cell of the highest score of a positive sample and
\* kept its other cells.
C23_Witness ==
    /\ ad_pc = "thres"
    /\ ad_bottom[1].label = 1
    /\ ad_bottom[1].mask_pred = <<2, 8, 5, 5>>
    /\ ad_top0[1] = <<0, 1, 0, 0>>
    /\ ad_top1[1] = <<<<1, 0, 1, 1>>, <<1, 0, 1, 1>>>>


\* ------------------------------------------------ claims on ASTNLossLayer

\* C9: after ASTNLossLayer.forward, the per-sample loss term is exactly 0 for
\* every sample whose label is 0, and is -log(1 - p) for every other sample,
\* p being the probability cls_prob gives to that sample's own label.
C9_PerSampleLoss ==
    at_pc = "forward" =>
        \A i \in 1..Len(at_bottom) :
            at_loss[i] = IF at_bottom[i].label = 0
                         THEN 0
                         ELSE NegLog(at_bottom[i].prob[at_bottom[i].label + 1])

\* A forward call on a batch of a background sample and a foreground sample
\* whose own-label probability differs from its class-0 probability.
C9_Witness ==
    /\ at_pc = "forward"
    /\ Len(at_bottom) = 2
    /\ at_bottom[1].label = 0
    /\ at_bottom[2].label = 1 /\ at_bottom[2].prob = <<2, 8>>
    /\ at_loss = <<0, 1609>>

\* C10 (as claimed): after forward, and after the backward that follows, in a
\* batch that mixes background and non-background samples every gradient entry
\* on cls_prob in the row of a background sample (label 0) is zero.
C10_BackgroundGradientZero ==
    (/\ at_pc \in {"forward", "backward"}
     /\ \E i \in 1..Len(at_bottom) : at_bottom[i].label = 0
     /\ \E i \in 1..Len(at_bottom) : at_bottom[i].label # 0)
        => \A i \in 1..Len(at_bottom) :
              at_bottom[i].label = 0 =>
                  \A c \in 1..Len(at_diff[i]) : at_diff[i][c] = 0

\* The per-sample terms of the claims: 0 for a background sample, -log(1 - p)
\* on the sample's own label otherwise.
ASTNTerms ==
    [i \in 1..Len(at_bottom) |->
        IF at_bottom[i].label = 0
        THEN 0
        ELSE NegLog(at_bottom[i].prob[at_bottom[i].label + 1])]

NonBackground == {i \in 1..Len(at_bottom) : at_bottom[i].label # 0}

\* C11 (amended): the scalar loss that ASTNLossLayer.forward writes is the sum
\* of the per-sample terms divided by batch_size, the number of all samples
\* of the batch, background samples included.
C11_AverageOverBatch ==
    at_pc = "forward" => at_top = SumSeq(ASTNTerms) \div Len(at_bottom)

\* A batch of one background and one foreground sample: the single term 1.609
\* is halved.
C11_Witness ==
    /\ at_pc = "forward"
    /\ Len(at_bottom) = 2
    /\ at_bottom[1].label = 0
    /\ at_bottom[2].label = 1 /\ at_bottom[2].prob = <<2, 8>>
    /\ at_top = 804

\* C11 (as claimed): the scalar loss is the sum of the per-sample terms divided
\* by the number of non-background samples.
C11_AverageOverForeground ==
    (at_pc = "forward" /\ NonBackground # {}) =>
        at_top = SumSeq(ASTNTerms) \div Cardinality(NonBackground)

\* ------------------------------------------------ claims on ASTNDataLayer

\* C12 (as claimed): when every block's angle is 0, ASTNDataLayer.forward
\* writes an output feature map equal to the input at every channel, row and
\* column, the last row and the last column included.
C12_IdentityRoundTrip ==
    (tn_pc = "forward" /\ \A i \in 1..tn_block_num : tn_trans_param[i] = 0) =>
        \A j \in 1..Len(tn_pool5) :
            \A r \in 1..Height(tn_pool5) : \A c \in 1..Width(tn_pool5) :
                tn_top[j][r][c] =
                    tn_pool5[j][r][c] * XDen(Height(tn_pool5), Width(tn_pool5))
                                      * YDen(Height(tn_pool5), Width(tn_pool5))

\* C17 (as claimed): for every shape, every block angle and every output
\* pixel, each of the four corner indices used to gather from the feature map
\* lies within the axis it indexes: x within axis 2, y within axis 3.
C17_GatherInRange ==
    tn_pc # "setup" =>
        \A j \in 1..Len(tn_pool5) : \A p \in 1..Len(tn_corners[j]) :
            CornersInRange(tn_pool5[j], tn_corners[j][p])

====
